---- MODULE Spec2Model ----
(***************************************************************************)
(* A model of the discussion service (acri-st/discussion): the route       *)
(* handlers of routes/discourse.py, the forum adapter of                   *)
(* services/discourse.py and the asset -> category association store.      *)
(*                                                                         *)
(* The forum platform, the auth service and the database are external:     *)
(* every answer they give is an input drawn from a small set.  A request   *)
(* is a task; GET /discussion/{asset_id} is split at its await points,     *)
(* because it is the one handler that reads and then writes the            *)
(* association store; the other handlers share no state with anything and  *)
(* are one action each.                                                    *)
(***************************************************************************)
EXTENDS Integers, Sequences, FiniteSets, TLC

(***************************************************************************)
(* Bounds of the model.                                                    *)
(***************************************************************************)
\* the forum platform hands out category ids 1..MaxCategories
MaxCategories == 3

(***************************************************************************)
(* Program constants.                                                      *)
(***************************************************************************)
DEFAULT_INTERNAL_ERROR_MESSAGE == "We are facing a problem with the subsystem"
MISSING_CATEGORY_ERROR_MESSAGE == "The category is not existing, please verify the information"
TITLE_TOO_SHORT == "You need to provide a title at least 15 chars"
CONTENT_TOO_SHORT == "You need to provide a title at least 20 chars"
DISCOURSE_POST_CATEGORY_UUID == "00000000-0000-0000-0000-111111111111"
MIN_TITLE_SIZE_IN_CHAR == 15
MIN_CONTENT_SIZE_IN_CHAR == 20
FORBIDDEN == 403
NOT_FOUND == 404
UNPROCESSABLE_ENTITY == 422
TOO_MANY_REQUESTS == 429
HTTP_STATUS_UNAUTHORIZED == 401
HTTP_STATUS_OK == 200

\* get_category_asset returns None when the asset has no association row
NoCategory == 0
\* DespResponse(...) built without an http_status argument
StatusNotSet == 0

(***************************************************************************)
(* The inputs of the model.                                                *)
(***************************************************************************)
\* asset ids (UUIDs); the second one is the sentinel of general posts
Assets == {"00000000-00b0-00bb-b00b-00b000000000", DISCOURSE_POST_CATEGORY_UUID}

\* the HTTP statuses the forum platform answers with: two of the success
\* statuses, each status handle_response_error has a branch for, 404, and
\* 400 for the statuses no branch names
Statuses == {200, 201, 400, 403, 404, 422, 429, 500, 503}

\* what the body of a forum answer is: the JSON object the endpoint documents
\* ("payload"), a JSON object with an "errors" list ("errors"), a JSON object
\* with an "error" list ("error"), a JSON object with none of these keys, such
\* as {} ("other"), or no JSON at all, such as an HTML error page ("not_json")
Bodies == {"payload", "errors", "error", "other", "not_json"}

\* the bodies every endpoint tells apart; "error" is one more class for
\* POST /posts.json with a title, the one answer in which the key is read
CommonBodies == Bodies \ {"error"}

ForumResponses == [status : Statuses, body : CommonBodies]

\* f"{num}_{asset_id}", the name create_category gives a category, as the
\* pair of its parts; num is random and stays abstract
CategoryName(asset_id) == <<"num", asset_id>>

(***************************************************************************)
(* Exceptions: a type and the message str(e) gives.                        *)
(***************************************************************************)
Exc(type, message) == [type |-> type, message |-> message]
NoExc == Exc("none", "")

\* "-".join(json_response["errors"])
JoinedErrors == "errors of the forum platform joined by -"

\* "-".join(topic_response["error"])
JoinedError == "error of the forum platform joined by -"

\* str(E) of the ContentTypeError of response.json() for a body that is no
\* JSON (the status and the url the text also holds are left out), and of
\* the KeyError of response_content["data"]
JsonErrorText == "Attempt to decode JSON with unexpected mimetype"
KeyErrorText == "'data'"

\* await response.json(): the exception raised
response_json(response) ==
    IF response.body = "not_json" THEN Exc("ContentTypeError", JsonErrorText) ELSE NoExc

(***************************************************************************)
(* services/discourse.py                                                   *)
(***************************************************************************)
is_a_5xx_error(status) == (status \div 100) = 5

\* f"Failed to authenticate on discourse during {message}"
authentication_error(message) ==
    CASE message = "category retrieval" -> "Failed to authenticate on discourse during category retrieval"
      [] message = "category creation" -> "Failed to authenticate on discourse during category creation"
      [] message = "Topic creation" -> "Failed to authenticate on discourse during Topic creation"
      [] message = "Post creation" -> "Failed to authenticate on discourse during Post creation"
      [] message = "Post listing" -> "Failed to authenticate on discourse during Post listing"
      [] message = "Fetching topic" -> "Failed to authenticate on discourse during Fetching topic"
      [] message = "Fetching post" -> "Failed to authenticate on discourse during Fetching post"
      [] message = "Post modification" -> "Failed to authenticate on discourse during Post modification"
      [] message = "Topic deletion" -> "Failed to authenticate on discourse during Topic deletion"

\* json_response["errors"] joined, for the statuses 422 and 429: the body is
\* read as JSON first, and a JSON object without the key raises KeyError
joined_errors(response) ==
    IF response_json(response) # NoExc THEN response_json(response)
    ELSE IF response.body = "errors" THEN Exc("DiscourseRequestError", JoinedErrors)
    ELSE Exc("KeyError", "errors")

\* The exception handle_response_error raises for a response, NoExc when it
\* returns.
handle_response_error(response, message) ==
    IF is_a_5xx_error(response.status)
    THEN Exc("DiscourseUnavailableError", message)
    ELSE IF response.status = FORBIDDEN
    THEN Exc("DiscourseAuthenticationError", authentication_error(message))
    ELSE IF response.status = UNPROCESSABLE_ENTITY
    THEN joined_errors(response)
    ELSE IF response.status = TOO_MANY_REQUESTS
    THEN joined_errors(response)
    ELSE NoExc

(***************************************************************************)
(* The association store: the rows of table "Discourses", in the order a   *)
(* select returns them.                                                    *)
(***************************************************************************)
Row(asset_id, category_id) == [assetId |-> asset_id, categoryId |-> category_id]

\* result.first(): the first row of a result, <<>> standing for None
get_first_record(result) == IF result = <<>> THEN <<>> ELSE <<result[1]>>

\* select ... where assetId == asset_id; the categoryId of the first record,
\* NoCategory (None) when there is none
get_category_asset(rows, asset_id) ==
    LET result == SelectSeq(rows, LAMBDA r : r.assetId = asset_id)
        record == get_first_record(result)
    IN  IF record # <<>> THEN record[1].categoryId ELSE NoCategory

\* The constraint of the table: the insert of a second row for an asset is an
\* integrity violation.  No file of src/ declares the table; the constraint
\* is the one the "integrity violation" of the specification supposes.
IntegrityViolation(rows, asset_id) ==
    \E i \in 1..Len(rows) : rows[i].assetId = asset_id

\* a set_category_asset that stores nothing
set_category_asset_forgets(rows, category_id, asset_id) ==
    [rows |-> rows, integrity_error |-> FALSE]

\* set_category_asset on a table that declares no constraint, as the table
\* of src/tests/utils.py does: the insert and the commit go through, and no
\* IntegrityError is there to catch
set_category_asset_plain(rows, category_id, asset_id) ==
    [rows |-> Append(rows, Row(asset_id, category_id)), integrity_error |-> FALSE]

\* a set_category_asset that deletes the rows of the asset before it inserts
set_category_asset_replaces(rows, category_id, asset_id) ==
    [rows |-> Append(SelectSeq(rows, LAMBDA row : row.assetId # asset_id),
                     Row(asset_id, category_id)),
     integrity_error |-> FALSE]

\* a set_category_asset that, for an asset that has a row, replaces its category
set_category_asset_upsert(rows, category_id, asset_id) ==
    IF IntegrityViolation(rows, asset_id)
    THEN [rows |-> [i \in 1..Len(rows) |->
                       IF rows[i].assetId = asset_id
                       THEN Row(asset_id, category_id) ELSE rows[i]],
          integrity_error |-> FALSE]
    ELSE [rows |-> Append(rows, Row(asset_id, category_id)), integrity_error |-> FALSE]

\* insert + commit on a table with the constraint; an IntegrityError is
\* logged and swallowed (returns None)
set_category_asset(rows, category_id, asset_id) ==
    IF IntegrityViolation(rows, asset_id)
    THEN [rows |-> rows, integrity_error |-> TRUE]
    ELSE [rows |-> Append(rows, Row(asset_id, category_id)), integrity_error |-> FALSE]

(***************************************************************************)
(* Topic listing.  A title is a sequence of characters.                    *)
(***************************************************************************)
AsciiDigits == {"0", "1", "2", "3", "4", "5", "6", "7", "8", "9"}

\* the decimal digits of Unicode (category Nd) outside ASCII, each written as
\* its code point: Python's \d matches them in a str pattern
UnicodeDigits ==
    {
      "U+0660", "U+0661", "U+0662", "U+0663", "U+0664", "U+0665", "U+0666", "U+0667", "U+0668", "U+0669",
      "U+06F0", "U+06F1", "U+06F2", "U+06F3", "U+06F4", "U+06F5", "U+06F6", "U+06F7", "U+06F8", "U+06F9",
      "U+07C0", "U+07C1", "U+07C2", "U+07C3", "U+07C4", "U+07C5", "U+07C6", "U+07C7", "U+07C8", "U+07C9",
      "U+0966", "U+0967", "U+0968", "U+0969", "U+096A", "U+096B", "U+096C", "U+096D", "U+096E", "U+096F",
      "U+09E6", "U+09E7", "U+09E8", "U+09E9", "U+09EA", "U+09EB", "U+09EC", "U+09ED", "U+09EE", "U+09EF",
      "U+0A66", "U+0A67", "U+0A68", "U+0A69", "U+0A6A", "U+0A6B", "U+0A6C", "U+0A6D", "U+0A6E", "U+0A6F",
      "U+0AE6", "U+0AE7", "U+0AE8", "U+0AE9", "U+0AEA", "U+0AEB", "U+0AEC", "U+0AED", "U+0AEE", "U+0AEF",
      "U+0B66", "U+0B67", "U+0B68", "U+0B69", "U+0B6A", "U+0B6B", "U+0B6C", "U+0B6D", "U+0B6E", "U+0B6F",
      "U+0BE6", "U+0BE7", "U+0BE8", "U+0BE9", "U+0BEA", "U+0BEB", "U+0BEC", "U+0BED", "U+0BEE", "U+0BEF",
      "U+0C66", "U+0C67", "U+0C68", "U+0C69", "U+0C6A", "U+0C6B", "U+0C6C", "U+0C6D", "U+0C6E", "U+0C6F",
      "U+0CE6", "U+0CE7", "U+0CE8", "U+0CE9", "U+0CEA", "U+0CEB", "U+0CEC", "U+0CED", "U+0CEE", "U+0CEF",
      "U+0D66", "U+0D67", "U+0D68", "U+0D69", "U+0D6A", "U+0D6B", "U+0D6C", "U+0D6D", "U+0D6E", "U+0D6F",
      "U+0DE6", "U+0DE7", "U+0DE8", "U+0DE9", "U+0DEA", "U+0DEB", "U+0DEC", "U+0DED", "U+0DEE", "U+0DEF",
      "U+0E50", "U+0E51", "U+0E52", "U+0E53", "U+0E54", "U+0E55", "U+0E56", "U+0E57", "U+0E58", "U+0E59",
      "U+0ED0", "U+0ED1", "U+0ED2", "U+0ED3", "U+0ED4", "U+0ED5", "U+0ED6", "U+0ED7", "U+0ED8", "U+0ED9",
      "U+0F20", "U+0F21", "U+0F22", "U+0F23", "U+0F24", "U+0F25", "U+0F26", "U+0F27", "U+0F28", "U+0F29",
      "U+1040", "U+1041", "U+1042", "U+1043", "U+1044", "U+1045", "U+1046", "U+1047", "U+1048", "U+1049",
      "U+1090", "U+1091", "U+1092", "U+1093", "U+1094", "U+1095", "U+1096", "U+1097", "U+1098", "U+1099",
      "U+17E0", "U+17E1", "U+17E2", "U+17E3", "U+17E4", "U+17E5", "U+17E6", "U+17E7", "U+17E8", "U+17E9",
      "U+1810", "U+1811", "U+1812", "U+1813", "U+1814", "U+1815", "U+1816", "U+1817", "U+1818", "U+1819",
      "U+1946", "U+1947", "U+1948", "U+1949", "U+194A", "U+194B", "U+194C", "U+194D", "U+194E", "U+194F",
      "U+19D0", "U+19D1", "U+19D2", "U+19D3", "U+19D4", "U+19D5", "U+19D6", "U+19D7", "U+19D8", "U+19D9",
      "U+1A80", "U+1A81", "U+1A82", "U+1A83", "U+1A84", "U+1A85", "U+1A86", "U+1A87", "U+1A88", "U+1A89",
      "U+1A90", "U+1A91", "U+1A92", "U+1A93", "U+1A94", "U+1A95", "U+1A96", "U+1A97", "U+1A98", "U+1A99",
      "U+1B50", "U+1B51", "U+1B52", "U+1B53", "U+1B54", "U+1B55", "U+1B56", "U+1B57", "U+1B58", "U+1B59",
      "U+1BB0", "U+1BB1", "U+1BB2", "U+1BB3", "U+1BB4", "U+1BB5", "U+1BB6", "U+1BB7", "U+1BB8", "U+1BB9",
      "U+1C40", "U+1C41", "U+1C42", "U+1C43", "U+1C44", "U+1C45", "U+1C46", "U+1C47", "U+1C48", "U+1C49",
      "U+1C50", "U+1C51", "U+1C52", "U+1C53", "U+1C54", "U+1C55", "U+1C56", "U+1C57", "U+1C58", "U+1C59",
      "U+A620", "U+A621", "U+A622", "U+A623", "U+A624", "U+A625", "U+A626", "U+A627", "U+A628", "U+A629",
      "U+A8D0", "U+A8D1", "U+A8D2", "U+A8D3", "U+A8D4", "U+A8D5", "U+A8D6", "U+A8D7", "U+A8D8", "U+A8D9",
      "U+A900", "U+A901", "U+A902", "U+A903", "U+A904", "U+A905", "U+A906", "U+A907", "U+A908", "U+A909",
      "U+A9D0", "U+A9D1", "U+A9D2", "U+A9D3", "U+A9D4", "U+A9D5", "U+A9D6", "U+A9D7", "U+A9D8", "U+A9D9",
      "U+A9F0", "U+A9F1", "U+A9F2", "U+A9F3", "U+A9F4", "U+A9F5", "U+A9F6", "U+A9F7", "U+A9F8", "U+A9F9",
      "U+AA50", "U+AA51", "U+AA52", "U+AA53", "U+AA54", "U+AA55", "U+AA56", "U+AA57", "U+AA58", "U+AA59",
      "U+ABF0", "U+ABF1", "U+ABF2", "U+ABF3", "U+ABF4", "U+ABF5", "U+ABF6", "U+ABF7", "U+ABF8", "U+ABF9",
      "U+FF10", "U+FF11", "U+FF12", "U+FF13", "U+FF14", "U+FF15", "U+FF16", "U+FF17", "U+FF18", "U+FF19",
      "U+104A0", "U+104A1", "U+104A2", "U+104A3", "U+104A4", "U+104A5", "U+104A6", "U+104A7", "U+104A8", "U+104A9",
      "U+10D30", "U+10D31", "U+10D32", "U+10D33", "U+10D34", "U+10D35", "U+10D36", "U+10D37", "U+10D38", "U+10D39",
      "U+11066", "U+11067", "U+11068", "U+11069", "U+1106A", "U+1106B", "U+1106C", "U+1106D", "U+1106E", "U+1106F",
      "U+110F0", "U+110F1", "U+110F2", "U+110F3", "U+110F4", "U+110F5", "U+110F6", "U+110F7", "U+110F8", "U+110F9",
      "U+11136", "U+11137", "U+11138", "U+11139", "U+1113A", "U+1113B", "U+1113C", "U+1113D", "U+1113E", "U+1113F",
      "U+111D0", "U+111D1", "U+111D2", "U+111D3", "U+111D4", "U+111D5", "U+111D6", "U+111D7", "U+111D8", "U+111D9",
      "U+112F0", "U+112F1", "U+112F2", "U+112F3", "U+112F4", "U+112F5", "U+112F6", "U+112F7", "U+112F8", "U+112F9",
      "U+11450", "U+11451", "U+11452", "U+11453", "U+11454", "U+11455", "U+11456", "U+11457", "U+11458", "U+11459",
      "U+114D0", "U+114D1", "U+114D2", "U+114D3", "U+114D4", "U+114D5", "U+114D6", "U+114D7", "U+114D8", "U+114D9",
      "U+11650", "U+11651", "U+11652", "U+11653", "U+11654", "U+11655", "U+11656", "U+11657", "U+11658", "U+11659",
      "U+116C0", "U+116C1", "U+116C2", "U+116C3", "U+116C4", "U+116C5", "U+116C6", "U+116C7", "U+116C8", "U+116C9",
      "U+11730", "U+11731", "U+11732", "U+11733", "U+11734", "U+11735", "U+11736", "U+11737", "U+11738", "U+11739",
      "U+118E0", "U+118E1", "U+118E2", "U+118E3", "U+118E4", "U+118E5", "U+118E6", "U+118E7", "U+118E8", "U+118E9",
      "U+11950", "U+11951", "U+11952", "U+11953", "U+11954", "U+11955", "U+11956", "U+11957", "U+11958", "U+11959",
      "U+11C50", "U+11C51", "U+11C52", "U+11C53", "U+11C54", "U+11C55", "U+11C56", "U+11C57", "U+11C58", "U+11C59",
      "U+11D50", "U+11D51", "U+11D52", "U+11D53", "U+11D54", "U+11D55", "U+11D56", "U+11D57", "U+11D58", "U+11D59",
      "U+11DA0", "U+11DA1", "U+11DA2", "U+11DA3", "U+11DA4", "U+11DA5", "U+11DA6", "U+11DA7", "U+11DA8", "U+11DA9",
      "U+16A60", "U+16A61", "U+16A62", "U+16A63", "U+16A64", "U+16A65", "U+16A66", "U+16A67", "U+16A68", "U+16A69",
      "U+16AC0", "U+16AC1", "U+16AC2", "U+16AC3", "U+16AC4", "U+16AC5", "U+16AC6", "U+16AC7", "U+16AC8", "U+16AC9",
      "U+16B50", "U+16B51", "U+16B52", "U+16B53", "U+16B54", "U+16B55", "U+16B56", "U+16B57", "U+16B58", "U+16B59",
      "U+1D7CE", "U+1D7CF", "U+1D7D0", "U+1D7D1", "U+1D7D2", "U+1D7D3", "U+1D7D4", "U+1D7D5", "U+1D7D6", "U+1D7D7",
      "U+1D7D8", "U+1D7D9", "U+1D7DA", "U+1D7DB", "U+1D7DC", "U+1D7DD", "U+1D7DE", "U+1D7DF", "U+1D7E0", "U+1D7E1",
      "U+1D7E2", "U+1D7E3", "U+1D7E4", "U+1D7E5", "U+1D7E6", "U+1D7E7", "U+1D7E8", "U+1D7E9", "U+1D7EA", "U+1D7EB",
      "U+1D7EC", "U+1D7ED", "U+1D7EE", "U+1D7EF", "U+1D7F0", "U+1D7F1", "U+1D7F2", "U+1D7F3", "U+1D7F4", "U+1D7F5",
      "U+1D7F6", "U+1D7F7", "U+1D7F8", "U+1D7F9", "U+1D7FA", "U+1D7FB", "U+1D7FC", "U+1D7FD", "U+1D7FE", "U+1D7FF",
      "U+1E140", "U+1E141", "U+1E142", "U+1E143", "U+1E144", "U+1E145", "U+1E146", "U+1E147", "U+1E148", "U+1E149",
      "U+1E2F0", "U+1E2F1", "U+1E2F2", "U+1E2F3", "U+1E2F4", "U+1E2F5", "U+1E2F6", "U+1E2F7", "U+1E2F8", "U+1E2F9",
      "U+1E950", "U+1E951", "U+1E952", "U+1E953", "U+1E954", "U+1E955", "U+1E956", "U+1E957", "U+1E958", "U+1E959",
      "U+1FBF0", "U+1FBF1", "U+1FBF2", "U+1FBF3", "U+1FBF4", "U+1FBF5", "U+1FBF6", "U+1FBF7", "U+1FBF8", "U+1FBF9" }

\* \d, and [a-f0-9\-]
Digits == AsciiDigits \cup UnicodeDigits
HexDash == AsciiDigits \cup {"a", "b", "c", "d", "e", "f", "-"}

\* whether s holds the characters of lit from position i on
HasAt(s, i, lit) ==
    /\ i + Len(lit) - 1 <= Len(s)
    /\ \A k \in 1..Len(lit) : s[i + k - 1] = lit[k]

\* the first position from i on whose character is not in class (Len(s)+1
\* when there is none): where a greedy class+ started at i stops
RECURSIVE SkipClass(_, _, _)
SkipClass(s, i, class) ==
    IF i <= Len(s) /\ s[i] \in class THEN SkipClass(s, i + 1, class) ELSE i

AboutThe == <<"A", "b", "o", "u", "t", " ", "t", "h", "e", " ">>
SpaceCategory == <<" ", "c", "a", "t", "e", "g", "o", "r", "y">>

\* a pattern r"About the \d+ category"
check_default_message_number_name(s) ==
    LET d == SkipClass(s, Len(AboutThe) + 1, Digits)
    IN  /\ HasAt(s, 1, AboutThe)
        /\ d > Len(AboutThe) + 1
        /\ HasAt(s, d, SpaceCategory)

\* a pattern "About the <anything> category"
check_default_message_any_name(s) ==
    /\ HasAt(s, 1, AboutThe)
    /\ \E i \in 1..Len(s) : HasAt(s, i, SpaceCategory)

\* re.match(r"About the \d+_[a-f0-9\-]+ category", s): a match at the start
\* of s; neither class holds the character that follows it, so the greedy
\* match is the only one
check_default_message(s) ==
    LET d == SkipClass(s, Len(AboutThe) + 1, Digits)
        h == SkipClass(s, d + 1, HexDash)
    IN  /\ HasAt(s, 1, AboutThe)
        /\ d > Len(AboutThe) + 1
        /\ HasAt(s, d, <<"_">>)
        /\ h > d + 1
        /\ HasAt(s, h, SpaceCategory)

\* Python's None
None == "None"

\* titles the forum platform's topic lists hold
TitleAbout1 == AboutThe \o <<"1">> \o SpaceCategory
TitleDefault == AboutThe \o <<"1", "2", "_", "a", "b", "-", "0", "1">> \o SpaceCategory
TitleReal == <<"T", "e", "s", "t", "_", "d", "s">>
\* "About the 7_00000000-0000-0000-0000-111111111111 category"
TitleDefaultUuid ==
    AboutThe \o <<"7", "_">> \o
    <<"0", "0", "0", "0", "0", "0", "0", "0", "-", "0", "0", "0", "0", "-", "0", "0", "0", "0", "-", "0", "0", "0", "0", "-", "1", "1", "1", "1", "1", "1", "1", "1", "1", "1", "1", "1">> \o SpaceCategory
\* "About the 12_xyz category": no hex digit after the underscore
TitleNoHex == AboutThe \o <<"1", "2", "_", "x", "y", "z">> \o SpaceCategory
\* "About the _ab category": no digit before the underscore
TitleNoDigit == AboutThe \o <<"_", "a", "b">> \o SpaceCategory
\* "Re: About the 12_ab-01 category": the pattern is not at the start
TitleQuoted == <<"R", "e", ":", " ">> \o TitleDefault
\* "About the \u0661\uff12_ab category": Arabic-Indic and fullwidth digits
TitleDefaultUnicode == AboutThe \o <<"U+0661", "U+FF12", "_", "a", "b">> \o SpaceCategory
\* "About the 1_\u0661 category": no ASCII hex digit after the underscore
TitleUnicodeHex == AboutThe \o <<"1", "_", "U+0661">> \o SpaceCategory

\* the descriptions of the posters of a topic
OriginalPoster == <<"O", "r", "i", "g", "i", "n", "a", "l", " ", "P", "o", "s", "t", "e", "r">>
MostRecentPoster == <<"M", "o", "s", "t", " ", "R", "e", "c", "e", "n", "t", " ", "P", "o", "s", "t", "e", "r">>
FrequentPoster == <<"F", "r", "e", "q", "u", "e", "n", "t", " ", "P", "o", "s", "t", "e", "r">>
OriginalAndMostRecent == OriginalPoster \o <<",", " ">> \o MostRecentPoster

\* lit in s, for two str
Contains(s, lit) == \E i \in 1..Len(s) : HasAt(s, i, lit)

\* a poster of a topic
Poster(description, user_id) == [description |-> description, user_id |-> user_id]

\* data.get("users", []): the users table of a topic list; the posters of
\* the lists refer to users 1, 2 and 3, and 3 is not in the table
PayloadUsers == <<[id |-> 1, username |-> "alice"], [id |-> 2, username |-> "bob"]>>

\* user_lookup = {user["id"]: user["username"] for user in users}, then
\* user_lookup.get(user_id): the username of the last entry with that id,
\* None without one
user_lookup_get(users, user_id) ==
    LET hits == {i \in 1..Len(users) : users[i].id = user_id}
    IN  IF hits = {} THEN None
        ELSE users[CHOOSE i \in hits : \A j \in hits : j <= i].username

\* a topic of a topic list of the forum platform
Topic(id, title, posters) == [id |-> id, title |-> title, posters |-> posters]

\* DiscourseTopic(**topic) once topic["username"] is set: posters is no
\* field of the model and is dropped
DiscourseTopic(topic, username) ==
    [id |-> topic.id, title |-> topic.title, username |-> username]

\* the username of the first poster of the topic, whatever its description
original_poster_username_of_first(posters, i, users) ==
    IF posters = <<>> THEN None ELSE user_lookup_get(users, posters[1].user_id)

\* the loop over topic.get("posters", []): the username of the first poster
\* whose description holds "Original Poster", looked up in the users table
RECURSIVE original_poster_username(_, _, _)
original_poster_username(posters, i, users) ==
    IF i > Len(posters) THEN None
    ELSE IF Contains(posters[i].description, OriginalPoster)
    THEN user_lookup_get(users, posters[i].user_id)
    ELSE original_poster_username(posters, i + 1, users)

\* the lists of posters of the topics
PostersNone == <<>>
PostersOriginal == <<Poster(OriginalAndMostRecent, 1)>>
PostersSecond == <<Poster(MostRecentPoster, 1), Poster(FrequentPoster, 3), Poster(OriginalPoster, 2)>>
PostersUnknown == <<Poster(OriginalPoster, 3), Poster(MostRecentPoster, 1)>>
PostersTwoOriginal == <<Poster(OriginalPoster, 2), Poster(OriginalAndMostRecent, 1)>>
PostersNoOriginal == <<Poster(MostRecentPoster, 1), Poster(FrequentPoster, 2)>>

\* the topic lists ("topic_list"."topics") the forum platform answers with
TopicPayloads ==
    { <<>>,
      <<Topic(66, TitleAbout1, PostersNone), Topic(67, TitleReal, PostersOriginal)>>,
      <<Topic(68, TitleDefault, PostersOriginal), Topic(67, TitleReal, PostersSecond)>>,
      <<Topic(67, TitleReal, PostersUnknown), Topic(69, TitleDefaultUuid, PostersNone),
        Topic(70, TitleNoHex, PostersTwoOriginal)>>,
      <<Topic(71, TitleNoDigit, PostersNoOriginal), Topic(72, TitleQuoted, PostersSecond),
        Topic(68, TitleDefault, PostersNone), Topic(73, TitleDefaultUnicode, PostersOriginal),
        Topic(74, TitleUnicodeHex, PostersOriginal)>> }

\* get_discourse_topics: the exception raised (NoExc when it returns) and the
\* topics returned.  A 404 is raised as DiscourseResourceUnavailableError;
\* for any other status outside (200, 201) handle_response_error is called
\* without await: the coroutine never runs and nothing is raised.  A body
\* that is no JSON fails in response.json(); a JSON object that is not a
\* topic list has no "topic_list" key.  The topics that are
\* not default messages are returned with their username.
get_discourse_topics(response, topics) ==
    IF response.status \notin {200, 201} /\ response.status = NOT_FOUND
    THEN [exc |-> Exc("DiscourseResourceUnavailableError", ""), topics |-> <<>>]
    ELSE IF response_json(response) # NoExc
    THEN [exc |-> response_json(response), topics |-> <<>>]
    ELSE IF response.body # "payload"
    THEN [exc |-> Exc("KeyError", "topic_list"), topics |-> <<>>]
    ELSE LET kept == SelectSeq(topics, LAMBDA t : ~check_default_message(t.title))
         IN  [exc |-> NoExc,
              topics |-> [i \in 1..Len(kept) |->
                            DiscourseTopic(kept[i],
                                original_poster_username(kept[i].posters, 1, PayloadUsers))]]

(***************************************************************************)
(* Categories.                                                             *)
(***************************************************************************)
Category(id, name) == [id |-> id, name |-> name]
NoCategoryRecord == Category(NoCategory, <<>>)

\* a get_discourse_category that raises on 404 as the topic listing does
get_discourse_category_raises_404(category, response, name) ==
    LET exc == handle_response_error(response, "category retrieval")
    IN  IF exc # NoExc
        THEN [exc |-> exc, next |-> "raise", category |-> NoCategoryRecord]
        ELSE IF response.status = NOT_FOUND
        THEN [exc |-> Exc("DiscourseResourceUnavailableError", ""), next |-> "raise",
              category |-> NoCategoryRecord]
        ELSE IF response_json(response) # NoExc
        THEN [exc |-> response_json(response), next |-> "raise",
              category |-> NoCategoryRecord]
        ELSE IF response.body # "payload"
        THEN [exc |-> Exc("KeyError", "category"), next |-> "raise",
              category |-> NoCategoryRecord]
        ELSE [exc |-> NoExc, next |-> "return", category |-> Category(category, name)]

\* a get_discourse_category that creates a category whatever the fetch answers
get_discourse_category_always_creates(category, response, name) ==
    LET exc == handle_response_error(response, "category retrieval")
    IN  IF exc # NoExc
        THEN [exc |-> exc, next |-> "raise", category |-> NoCategoryRecord]
        ELSE [exc |-> NoExc, next |-> "create", category |-> NoCategoryRecord]

\* get_discourse_category, once the category id is known: "create" stands
\* for the fall back to create_category
get_discourse_category(category, response, name) ==
    LET exc == handle_response_error(response, "category retrieval")
    IN  IF exc # NoExc
        THEN [exc |-> exc, next |-> "raise", category |-> NoCategoryRecord]
        ELSE IF response.status = NOT_FOUND
        THEN [exc |-> NoExc, next |-> "create", category |-> NoCategoryRecord]
        ELSE IF response_json(response) # NoExc
        THEN [exc |-> response_json(response), next |-> "raise",
              category |-> NoCategoryRecord]
        ELSE IF response.body # "payload"
        THEN [exc |-> Exc("KeyError", "category"), next |-> "raise",
              category |-> NoCategoryRecord]
        ELSE [exc |-> NoExc, next |-> "return", category |-> Category(category, name)]

\* a create_category that does not look for "errors" in the answer
create_category_ignores_errors(response, id, name) ==
    LET exc == IF response.status \notin {200, 201}
               THEN handle_response_error(response, "category creation")
               ELSE NoExc
    IN  IF exc # NoExc
        THEN [exc |-> exc, category |-> NoCategoryRecord]
        ELSE IF response_json(response) # NoExc
        THEN [exc |-> response_json(response), category |-> NoCategoryRecord]
        ELSE IF response.body \notin {"payload", "errors"}
        THEN [exc |-> Exc("KeyError", "category"), category |-> NoCategoryRecord]
        ELSE [exc |-> NoExc, category |-> Category(id, name)]

\* create_category, the call to the forum platform: the exception raised,
\* else the category of the answer (id: the id the platform gave it)
create_category(response, id, name) ==
    LET exc == IF response.status \notin {200, 201}
               THEN handle_response_error(response, "category creation")
               ELSE NoExc
    IN  IF exc # NoExc
        THEN [exc |-> exc, category |-> NoCategoryRecord]
        ELSE IF response_json(response) # NoExc
        THEN [exc |-> response_json(response), category |-> NoCategoryRecord]
        ELSE IF response.body = "errors"
        THEN [exc |-> Exc("DiscourseRequestError", JoinedErrors),
              category |-> NoCategoryRecord]
        ELSE IF response.body # "payload"
        THEN [exc |-> Exc("KeyError", "category"), category |-> NoCategoryRecord]
        ELSE [exc |-> NoExc, category |-> Category(id, name)]

(***************************************************************************)
(* Users.  get_current_user() gives a DespUser or None.                    *)
(***************************************************************************)
Users == {"alice", "bob"}
CurrentUsers == Users \cup {None}

\* user.profile.email and user.id of the DespUser of a username
EmailOf(username) == <<username, "@mail">>
IdOf(username) == <<"id", username>>

\* ensure_user: without a user AuthenticationNeededError is raised before any
\* call; else POST /users.json, whose answer goes through
\* handle_response_error and is not read further
AUTHENTICATION_NEEDED == "You need to be logged in in order to publish on forum"

ensure_user(desp_user, response) ==
    IF desp_user = None
    THEN Exc("AuthenticationNeededError", AUTHENTICATION_NEEDED)
    ELSE handle_response_error(response, "category retrieval")

(***************************************************************************)
(* Topics and posts of the forum adapter.  Each operator gives the         *)
(* exception the function raises for an answer, NoExc when it returns.     *)
(***************************************************************************)
\* Model(**await response.json()): the JSON of an answer validated as a
\* pydantic model.  A body that is no JSON fails in response.json(), a JSON
\* object without the fields of the model fails the validation.
ParseModel(response) ==
    IF response_json(response) # NoExc THEN response_json(response)
    ELSE IF response.body = "payload" THEN NoExc
    ELSE Exc("ValidationError", "")

\* create_discourse_topic: POST /posts.json with a category and a title; an
\* answer with the key "error" is raised as DiscourseRequestError
create_discourse_topic(response) ==
    LET exc == IF response.status \notin {200, 201}
               THEN handle_response_error(response, "Topic creation")
               ELSE NoExc
    IN  IF exc # NoExc THEN exc
        ELSE IF response_json(response) # NoExc THEN response_json(response)
        ELSE IF response.body = "error" THEN Exc("DiscourseRequestError", JoinedError)
        ELSE ParseModel(response)

\* create_discourse_post: POST /posts.json with a topic id; returns the JSON
\* of the answer as it is
create_discourse_post(response) ==
    LET exc == IF response.status \notin {200, 201}
               THEN handle_response_error(response, "Post creation")
               ELSE NoExc
    IN  IF exc # NoExc THEN exc ELSE response_json(response)

\* a post of "post_stream"."posts" of the forum platform: the nine fields of
\* DiscoursePost that DiscussionPostResponse reads, and three of the fields
\* it does not read
DiscoursePost(id, topic_id, username, user_id, post_number) ==
    [id |-> id, name |-> <<"name", username>>, username |-> username,
     display_username |-> <<"display", username>>, user_id |-> user_id,
     avatar_template |-> <<"avatar", username>>, created_at |-> <<"at", post_number>>,
     cooked |-> <<"cooked", id>>, topic_id |-> topic_id,
     post_number |-> post_number, topic_slug |-> <<"slug", topic_id>>,
     yours |-> FALSE]

\* a DiscussionPostResponse.from_reply that keeps the post of the platform whole
DiscussionPostResponse_from_reply_whole(discourse_post) == discourse_post

\* DiscussionPostResponse.from_reply
DiscussionPostResponse_from_reply(discourse_post) ==
    [id |-> discourse_post.id, name |-> discourse_post.name,
     username |-> discourse_post.username,
     display_username |-> discourse_post.display_username,
     user_id |-> discourse_post.user_id,
     avatar_template |-> discourse_post.avatar_template,
     created_at |-> discourse_post.created_at, cooked |-> discourse_post.cooked,
     topic_id |-> discourse_post.topic_id]

\* the "details" of a topic of the forum platform: the key may be missing,
\* may lack "created_by", and the creator may lack "username"
Details(has_details, has_created_by, username) ==
    [has_details |-> has_details, has_created_by |-> has_created_by,
     created_by |-> [username |-> username]]

\* the JSON of GET /t/{topic_id}.json: username is the "username" key of the
\* topic itself (None without it)
TopicJson(id, title, username, details, posts) ==
    [id |-> id, title |-> title, username |-> username, details |-> details,
     post_stream |-> [posts |-> posts]]

\* get_discourse_posts: GET /t/{topic_id}.json?print=true; the exception
\* raised (NoExc when it returns), the topic and its posts
get_discourse_posts(response, topic) ==
    LET exc == IF response.status \notin {200, 201}
               THEN handle_response_error(response, "Post listing")
               ELSE NoExc
        parsed == IF exc # NoExc THEN exc ELSE ParseModel(response)
        username == IF topic.details.has_details /\ topic.details.has_created_by
                    THEN topic.details.created_by.username
                    ELSE topic.username
    IN  IF parsed # NoExc
        THEN [exc |-> parsed, topic |-> DiscourseTopic(topic, None), posts |-> <<>>]
        ELSE [exc |-> NoExc, topic |-> DiscourseTopic(topic, username),
              posts |-> topic.post_stream.posts]

\* get_discourse_topic: GET /t/{topic_id}.json
get_discourse_topic(response) ==
    LET exc == IF response.status \notin {200, 201}
               THEN handle_response_error(response, "Fetching topic")
               ELSE NoExc
    IN  IF exc # NoExc THEN exc ELSE ParseModel(response)

\* get_discourse_post: GET /posts/{post_id}.json
get_discourse_post(response) ==
    LET exc == IF response.status \notin {200, 201}
               THEN handle_response_error(response, "Fetching post")
               ELSE NoExc
    IN  IF exc # NoExc THEN exc ELSE ParseModel(response)

\* edit_discourse_post: PUT /posts/{post_id}.json; the post is the "post"
\* key of the answer (None without it: DiscoursePost(**None) is a TypeError)
edit_discourse_post(response) ==
    LET exc == IF response.status \notin {200, 201}
               THEN handle_response_error(response, "Post modification")
               ELSE NoExc
    IN  IF exc # NoExc THEN exc
        ELSE IF response_json(response) # NoExc THEN response_json(response)
        ELSE IF response.body # "payload" THEN Exc("TypeError", "")
        ELSE NoExc

\* delete_discourse_topic: DELETE /t/{topic_id}.json; the body is not read
delete_discourse_topic(response) ==
    IF response.status \notin {200, 201}
    THEN handle_response_error(response, "Topic deletion")
    ELSE NoExc

(***************************************************************************)
(* routes/discourse.py: what a handler returns.                            *)
(***************************************************************************)
DespResponse(data, error, http_status) ==
    [data |-> data, error |-> error, http_status |-> http_status]

\* {} as response data
EmptyData == [kind |-> "empty"]

\* DiscussionResponse(id, name, topics)
DiscussionResponse(id, name, topics) ==
    [kind |-> "discussion", id |-> id, name |-> name, topics |-> topics]

\* DiscussionTopicResponse.from_reply (posts is [] without the argument)
DiscussionTopicResponse_from_reply(discourse_topic, posts) ==
    [posts |-> [i \in 1..Len(posts) |-> DiscussionPostResponse_from_reply(posts[i])],
     id |-> discourse_topic.id, title |-> discourse_topic.title,
     username |-> discourse_topic.username]

\* DiscussionResponse.from_reply
DiscussionResponse_from_reply(discourse_category, topics_response) ==
    DiscussionResponse(discourse_category.id, discourse_category.name,
                       [i \in 1..Len(topics_response) |->
                          DiscussionTopicResponse_from_reply(topics_response[i], <<>>)])

\* the exceptions the except clauses of every handler name
CaughtByRoutes ==
    {"DiscourseUnavailableError", "DiscourseResourceUnavailableError",
     "DiscourseRequestError", "AuthenticationNeededError"}

\* the except clauses of get_category

get_category_except(exc, response) ==
    IF exc.type \in {"DiscourseUnavailableError", "DiscourseResourceUnavailableError"}
    THEN DespResponse(response, DEFAULT_INTERNAL_ERROR_MESSAGE, StatusNotSet)
    ELSE IF exc.type = "DiscourseRequestError"
    THEN DespResponse(response, exc.message, StatusNotSet)
    ELSE DespResponse(response, exc.message, HTTP_STATUS_UNAUTHORIZED)

(***************************************************************************)
(* The state.                                                              *)
(***************************************************************************)
VARIABLES
    db,          \* the rows of the association table
    categories,  \* the forum platform: categories[i] is the name of the
                 \* category of id i
    task         \* the requests being handled: where each handler is (pc),
                 \* the calls it made, the messages it sent, and at the end
                 \* the response it returned or the exception that left it

vars == <<db, categories, task>>

\* the tasks that handle requests
Tasks == {"t1", "t2"}

NoResponse == DespResponse(EmptyData, "", StatusNotSet)

\* a task that handles no request
Idle ==
    [route |-> "none", pc |-> "idle", args |-> EmptyData,
     asset_category_id |-> NoCategory, category |-> NoCategoryRecord,
     calls |-> <<>>, sent |-> <<>>, response |-> NoResponse,
     raised |-> NoExc, escaped |-> FALSE]

\* one call to a collaborator: the operation and the status it answered
Call(op, status) == [op |-> op, status |-> status, body |-> "none"]

\* one call to the forum platform, and its answer
ForumCall(op, response) ==
    [op |-> op, status |-> response.status, body |-> response.body]

\* the topic listing, and the topics of the answer
ListCall(response, topics) ==
    [op |-> "topic_list", status |-> response.status, body |-> response.body,
     topics |-> topics]

\* the fetch of a topic with its posts, and the topic of the answer
PostsCall(response, topic) ==
    [op |-> "topic_get_posts", status |-> response.status, body |-> response.body,
     topic |-> topic]

\* the operations of the forum adapter
ForumOps ==
    {"ensure_user", "category_fetch", "category_create", "topic_list", "topic_create",
     "topic_get", "topic_get_posts", "topic_delete", "post_create", "post_get", "post_edit"}

\* the handler of request req returns response
Return(req, response, calls) ==
    [req EXCEPT !.pc = "done", !.response = response, !.calls = calls]

\* exc is raised in the try block of the handler of req: answer is what its
\* except clauses return, and an exception they do not name leaves the handler
RaiseIn(req, exc, answer, calls) ==
    IF exc.type \in CaughtByRoutes
    THEN [req EXCEPT !.pc = "done", !.raised = exc, !.response = answer, !.calls = calls]
    ELSE [req EXCEPT !.pc = "done", !.raised = exc, !.escaped = TRUE, !.calls = calls]

\* exc is raised outside the try block
Escape(req, exc, calls) ==
    [req EXCEPT !.pc = "done", !.raised = exc, !.escaped = TRUE, !.calls = calls]

Init ==
    /\ db = <<>>
    /\ categories = <<>>
    /\ task = [t \in Tasks |-> Idle]

(***************************************************************************)
(* GET /discussion/{asset_id}: get_category, one action per await.         *)
(***************************************************************************)
StartGetCategory(t, asset_id) ==
    /\ task[t].pc = "idle"
    /\ task' = [task EXCEPT ![t] =
                   [Idle EXCEPT !.route = "get_category", !.pc = "lookup",
                                !.args = [asset_id |-> asset_id],
                                !.response = DespResponse(DiscussionResponse(0, <<>>, <<>>),
                                                          "", StatusNotSet)]]
    /\ UNCHANGED <<db, categories>>

\* asset_category_id = await get_category_asset(asset_id); with None
\* get_discourse_category goes straight to create_category
GetCategoryLookup(t) ==
    /\ task[t].route = "get_category" /\ task[t].pc = "lookup"
    /\ LET id == get_category_asset(db, task[t].args.asset_id)
       IN  task' = [task EXCEPT ![t].asset_category_id = id,
                                ![t].pc = IF id = NoCategory THEN "create" ELSE "fetch",
                                ![t].calls = Append(@, Call("db_select", id))]
    /\ UNCHANGED <<db, categories>>

\* get_discourse_category: GET /c/{category}/show.json
GetCategoryFetch(t, responses) ==
    /\ task[t].route = "get_category" /\ task[t].pc = "fetch"
    /\ \E response \in responses :
         LET got == get_discourse_category(task[t].asset_category_id, response,
                                          categories[task[t].asset_category_id])
             calls == Append(task[t].calls, ForumCall("category_fetch", response))
         IN  task' = [task EXCEPT ![t] =
               IF got.next = "raise"
               THEN RaiseIn(task[t], got.exc,
                            get_category_except(got.exc, task[t].response.data), calls)
               ELSE IF got.next = "create"
               THEN [task[t] EXCEPT !.pc = "create", !.calls = calls]
               ELSE [task[t] EXCEPT !.pc = "topics", !.category = got.category,
                                    !.calls = calls]]
    /\ UNCHANGED <<db, categories>>

\* The answers of the forum platform to POST /categories.json: the platform
\* gives at most MaxCategories categories to the service.
CreateAnswers(responses) ==
    {r \in responses :
        create_category(r, 0, <<>>).exc = NoExc => Len(categories) < MaxCategories}

\* create_category: POST /categories.json
GetCategoryCreate(t, responses) ==
    /\ task[t].route = "get_category" /\ task[t].pc = "create"
    /\ \E response \in CreateAnswers(responses) :
         LET got == create_category(response, Len(categories) + 1,
                                   CategoryName(task[t].args.asset_id))
             calls == Append(task[t].calls, ForumCall("category_create", response))
         IN  /\ task' = [task EXCEPT ![t] =
                   IF got.exc # NoExc
                   THEN RaiseIn(task[t], got.exc,
                                get_category_except(got.exc, task[t].response.data), calls)
                   ELSE [task[t] EXCEPT !.pc = "store", !.category = got.category,
                                        !.calls = calls]]
             /\ categories' = IF got.exc = NoExc
                              THEN Append(categories, got.category.name)
                              ELSE categories
    /\ UNCHANGED db

\* a create_category that, when its insert is refused, goes on with the
\* category of the row that is there
GetCategoryStore_rereads(t) ==
    /\ task[t].route = "get_category" /\ task[t].pc = "store"
    /\ LET stored == set_category_asset(db, task[t].category.id, task[t].args.asset_id)
           found == get_category_asset(db, task[t].args.asset_id)
       IN  /\ db' = stored.rows
           /\ task' = [task EXCEPT ![t].pc = "topics",
                          ![t].category = IF stored.integrity_error
                                          THEN Category(found, categories[found])
                                          ELSE @,
                          ![t].calls = Append(@, Call("db_insert",
                                IF stored.integrity_error THEN 0 ELSE 1))]
    /\ UNCHANGED categories

\* create_category: await set_category_asset(discourse_category.id, asset_id)
GetCategoryStore(t) ==
    /\ task[t].route = "get_category" /\ task[t].pc = "store"
    /\ LET stored == set_category_asset(db, task[t].category.id, task[t].args.asset_id)
       IN  /\ db' = stored.rows
           /\ task' = [task EXCEPT ![t].pc = "topics",
                          ![t].calls = Append(@, Call("db_insert",
                                IF stored.integrity_error THEN 0 ELSE 1))]
    /\ UNCHANGED categories

\* get_discourse_topics(category_response.slug, category_response.id), then
\* DiscussionResponse.from_reply
GetCategoryTopics(t, responses, payloads) ==
    /\ task[t].route = "get_category" /\ task[t].pc = "topics"
    /\ \E response \in responses, topics \in payloads :
         LET got == get_discourse_topics(response, topics)
             calls == Append(task[t].calls, ListCall(response, topics))
         IN  /\ response.body # "payload" => topics = <<>>
             /\ task' = [task EXCEPT ![t] =
                   IF got.exc # NoExc
                   THEN RaiseIn(task[t], got.exc,
                                get_category_except(got.exc, task[t].response.data), calls)
                   ELSE Return(task[t], DespResponse(
                                   DiscussionResponse_from_reply(task[t].category, got.topics),
                                   "", StatusNotSet), calls)]
    /\ UNCHANGED <<db, categories>>

\* the answer is sent: the task is free for the next request
Finish(t) ==
    /\ task[t].pc = "done"
    /\ task' = [task EXCEPT ![t] = Idle]
    /\ UNCHANGED <<db, categories>>

\* one step of a GET /discussion request, the forum platform answering with
\* one of responses and, to a topic listing, with one of payloads
GetCategoryStep(t, responses, payloads) ==
    \/ \E asset_id \in Assets : StartGetCategory(t, asset_id)
    \/ GetCategoryLookup(t)
    \/ GetCategoryFetch(t, responses)
    \/ GetCategoryCreate(t, responses)
    \/ GetCategoryStore(t)
    \/ GetCategoryTopics(t, responses, payloads)
    \/ Finish(t)

\* Concurrent GET /discussion requests: the tasks interleave at their awaits.
\* The platform answers with a success, a not-found or an outage.
RaceResponses == [status : {200, 404, 500}, body : {"payload", "errors"}]
RacePayloads ==
    {<<>>, <<Topic(66, TitleAbout1, PostersNone), Topic(67, TitleReal, PostersOriginal)>>}

NextRace == \E t \in Tasks : GetCategoryStep(t, RaceResponses, RacePayloads)

SpecRace == Init /\ [][NextRace]_vars

\* The same requests over a table that has no constraint: what the code of
\* src/ does by itself.
\* create_category: await set_category_asset(discourse_category.id, asset_id)
GetCategoryStorePlain(t) ==
    /\ task[t].route = "get_category" /\ task[t].pc = "store"
    /\ LET stored == set_category_asset_plain(db, task[t].category.id,
                                              task[t].args.asset_id)
       IN  /\ db' = stored.rows
           /\ task' = [task EXCEPT ![t].pc = "topics",
                          ![t].calls = Append(@, Call("db_insert",
                                IF stored.integrity_error THEN 0 ELSE 1))]
    /\ UNCHANGED categories

GetCategoryStepPlain(t, responses, payloads) ==
    \/ \E asset_id \in Assets : StartGetCategory(t, asset_id)
    \/ GetCategoryLookup(t)
    \/ GetCategoryFetch(t, responses)
    \/ GetCategoryCreate(t, responses)
    \/ GetCategoryStorePlain(t)
    \/ GetCategoryTopics(t, responses, payloads)
    \/ Finish(t)

NextPlain == \E t \in Tasks : GetCategoryStepPlain(t, RaceResponses, RacePayloads)

SpecPlain == Init /\ [][NextPlain]_vars

(***************************************************************************)
(* The other handlers touch no state of the service: one action each.      *)
(***************************************************************************)
TopicIds == {67}
PostIds == {101}

\* a post as the handlers return it (DiscussionPostResponse)
PostData(id, topic_id) == [kind |-> "post", id |-> id, topic_id |-> topic_id]

\* a request of route with args, before its handler runs
Request(route, args) == [Idle EXCEPT !.route = route, !.args = args]

\* the call ensure_user makes: none without a user
EnsureCalls(user, response) ==
    IF user = None THEN <<>> ELSE <<ForumCall("ensure_user", response)>>

\* the answers of the queue to a publish
QueueAnswers == {"ok", "failed"}
CONTENT_BLOCKED == "[Content has been blocked]"

\* str(n) of an int n >= 0: its decimal digits
DecimalDigits == <<"0", "1", "2", "3", "4", "5", "6", "7", "8", "9">>
RECURSIVE str(_)
str(n) ==
    IF n < 10 THEN <<DecimalDigits[n + 1]>>
    ELSE Append(str(n \div 10), DecimalDigits[(n % 10) + 1])

\* an event of a post whose reject callback is the one of a topic
ValidatePostMessage_deletes_topic(post_id, user) ==
    [channel |-> "moderation", status |-> "Auto_Pending", content_id |-> str(post_id),
     user_id |-> IdOf(user), fonctionnal_area |-> "DiscussionPost",
     auto_mod_routing |-> <<"Text_Toxicity">>,
     reject_callbacks |-> <<[service |-> "discussion", method |-> "DELETE",
                             url |-> <<"/topic/moderate/", str(post_id)>>,
                             payload |-> [text |-> CONTENT_BLOCKED]]>>,
     accept_callbacks |-> <<>>]

\* ValidatePostMessage: the moderation event of a post; the url is
\* f"/post/moderate/{post.id}", the payload EditPostBody(text=CONTENT_BLOCKED)
ValidatePostMessage(post_id, user) ==
    [channel |-> "moderation", status |-> "Auto_Pending", content_id |-> str(post_id),
     user_id |-> IdOf(user), fonctionnal_area |-> "DiscussionPost",
     auto_mod_routing |-> <<"Text_Toxicity">>,
     reject_callbacks |-> <<[service |-> "discussion", method |-> "PUT",
                             url |-> <<"/post/moderate/", str(post_id)>>,
                             payload |-> [text |-> CONTENT_BLOCKED]]>>,
     accept_callbacks |-> <<>>]

\* ValidateTopicMessage: the moderation event of a topic
ValidateTopicMessage(topic_id, user) ==
    [channel |-> "moderation", status |-> "Auto_Pending", content_id |-> str(topic_id),
     user_id |-> IdOf(user), fonctionnal_area |-> "DiscussionTopic",
     auto_mod_routing |-> <<"Text_Toxicity">>,
     reject_callbacks |-> <<[service |-> "discussion", method |-> "DELETE",
                             url |-> <<"/topic/moderate/", str(topic_id)>>,
                             payload |-> [text |-> CONTENT_BLOCKED]]>>,
     accept_callbacks |-> <<>>]

\* a send_to_moderation that reports a failed publish as an outage of the forum
send_to_moderation_as_unavailable(answer) ==
    IF answer = "failed" THEN Exc("DiscourseUnavailableError", "") ELSE NoExc

\* send_post_to_moderation / send_topic_to_moderation: a failed publish is
\* raised as SendPostModerationError
send_to_moderation(answer) ==
    IF answer = "failed" THEN Exc("SendPostModerationError", "") ELSE NoExc

\* send_email_to_mq(notification_type, user_email, subject, message, user_id)
Email(user_email, subject, message, user_id) ==
    [channel |-> "email", user_email |-> user_email, subject |-> subject,
     message |-> message, user_id |-> user_id]

\* ---- GET /topics/{slug}/{category}
get_topics_except(exc, response) ==
    IF exc.type = "DiscourseUnavailableError"
    THEN DespResponse(response, DEFAULT_INTERNAL_ERROR_MESSAGE, 500)
    ELSE IF exc.type = "DiscourseResourceUnavailableError"
    THEN DespResponse(response, MISSING_CATEGORY_ERROR_MESSAGE, 404)
    ELSE IF exc.type = "DiscourseRequestError"
    THEN DespResponse(response, exc.message, 500)
    ELSE DespResponse(response, exc.message, HTTP_STATUS_UNAUTHORIZED)

GetTopics(t, responses, payloads) ==
    /\ task[t].pc = "idle"
    /\ \E user \in CurrentUsers, category \in 1..MaxCategories,
          response \in responses, topics \in payloads :
         LET req == Request("get_topics", [user |-> user, category |-> category])
             got == get_discourse_topics(response, topics)
             calls == <<ListCall(response, topics)>>
         IN  /\ response.body # "payload" => topics = <<>>
             /\ task' = [task EXCEPT ![t] =
                   IF got.exc # NoExc
                   THEN RaiseIn(req, got.exc, get_topics_except(got.exc, EmptyData), calls)
                   ELSE Return(req, DespResponse([kind |-> "topics", topics |->
                                                    [i \in 1..Len(got.topics) |->
                                                       DiscussionTopicResponse_from_reply(
                                                           got.topics[i], <<>>)]],
                                                 "", StatusNotSet), calls)]
    /\ UNCHANGED <<db, categories>>

\* ---- GET /topic/{topic_id}
get_topic_except(exc, response) ==
    IF exc.type \in {"DiscourseUnavailableError", "DiscourseResourceUnavailableError"}
    THEN DespResponse(response, DEFAULT_INTERNAL_ERROR_MESSAGE, StatusNotSet)
    ELSE IF exc.type = "DiscourseRequestError"
    THEN DespResponse(response, exc.message, StatusNotSet)
    ELSE DespResponse(response, exc.message, HTTP_STATUS_UNAUTHORIZED)

\* the posts ("post_stream"."posts") of a topic of the forum platform
PostPayloads(topic_id) ==
    { <<>>,
      <<DiscoursePost(101, topic_id, "alice", 1, 1)>>,
      <<DiscoursePost(101, topic_id, "alice", 1, 1),
        DiscoursePost(102, topic_id, "bob", 2, 2)>>,
      <<DiscoursePost(102, topic_id, "bob", 2, 2),
        DiscoursePost(101, topic_id, "alice", 1, 1)>> }

\* the "details" of the topics of the forum platform
DetailsPayloads ==
    { Details(FALSE, FALSE, None), Details(TRUE, FALSE, None),
      Details(TRUE, TRUE, None), Details(TRUE, TRUE, "alice") }

\* the topics the forum platform answers GET /t/{topic_id}.json with
TopicJsons(topic_id) ==
    { TopicJson(topic_id, TitleReal, username, details, posts) :
        username \in {None, "bob"}, details \in DetailsPayloads,
        posts \in PostPayloads(topic_id) }

\* the topic of an answer that is no topic
NoTopicJson == TopicJson(0, <<>>, None, Details(FALSE, FALSE, None), <<>>)

GetTopic(t, responses) ==
    /\ task[t].pc = "idle"
    /\ \E user \in CurrentUsers, topic_id \in TopicIds, response \in responses :
       \E topic \in TopicJsons(topic_id) \cup {NoTopicJson} :
         LET req == Request("get_topic", [user |-> user, topic_id |-> topic_id])
             got == get_discourse_posts(response, topic)
             calls == <<PostsCall(response, topic)>>
         IN  /\ (response.body = "payload") = (topic # NoTopicJson)
             /\ task' = [task EXCEPT ![t] =
                   IF got.exc # NoExc
                   THEN RaiseIn(req, got.exc, get_topic_except(got.exc, EmptyData), calls)
                   ELSE Return(req, DespResponse(
                                   DiscussionTopicResponse_from_reply(got.topic, got.posts),
                                   "", StatusNotSet), calls)]
    /\ UNCHANGED <<db, categories>>

\* ---- PUT /post/{post_id}: no current user is read, ensure_user is not called
edit_post_except(exc, response) ==
    IF exc.type \in {"DiscourseUnavailableError", "DiscourseResourceUnavailableError"}
    THEN DespResponse(response, DEFAULT_INTERNAL_ERROR_MESSAGE, StatusNotSet)
    ELSE IF exc.type = "DiscourseRequestError"
    THEN DespResponse(response, exc.message, StatusNotSet)
    ELSE DespResponse(response, exc.message, HTTP_STATUS_UNAUTHORIZED)

EditPost(t, responses) ==
    /\ task[t].pc = "idle"
    /\ \E user \in CurrentUsers, post_id \in PostIds, topic_id \in TopicIds,
          response \in responses :
         LET req == Request("edit_post", [user |-> user, post_id |-> post_id])
             exc == edit_discourse_post(response)
             calls == <<ForumCall("post_edit", response)>>
         IN  task' = [task EXCEPT ![t] =
               IF exc # NoExc
               THEN RaiseIn(req, exc, edit_post_except(exc, EmptyData), calls)
               ELSE Return(req, DespResponse(PostData(post_id, topic_id), "", StatusNotSet),
                           calls)]
    /\ UNCHANGED <<db, categories>>

\* ---- POST /topic/{topic_id}
create_post_except(exc, response) ==
    IF exc.type \in {"DiscourseUnavailableError", "DiscourseResourceUnavailableError"}
    THEN DespResponse(response, DEFAULT_INTERNAL_ERROR_MESSAGE, StatusNotSet)
    ELSE IF exc.type = "DiscourseRequestError"
    THEN DespResponse(response, exc.message, StatusNotSet)
    ELSE DespResponse(response, exc.message, HTTP_STATUS_UNAUTHORIZED)

\* discourse_username = user.username is read before the try block: without a
\* user it is an AttributeError
CreatePost(t, responses) ==
    /\ task[t].pc = "idle"
    /\ \E user \in CurrentUsers, topic_id \in TopicIds :
         LET req == Request("create_post", [user |-> user, topic_id |-> topic_id])
         IN  IF user = None
             THEN task' = [task EXCEPT ![t] =
                              Escape(req, Exc("AttributeError", "username"), <<>>)]
             ELSE \E r1 \in responses :
               LET e1 == ensure_user(user, r1)
                   c1 == EnsureCalls(user, r1)
               IN  IF e1 # NoExc
                   THEN task' = [task EXCEPT ![t] =
                                    RaiseIn(req, e1, create_post_except(e1, EmptyData), c1)]
                   ELSE \E r2 \in responses, post_id \in PostIds :
                     \* DiscussionPostResponse(**response) validates the
                     \* JSON create_discourse_post returned
                     LET e2 == IF create_discourse_post(r2) # NoExc
                               THEN create_discourse_post(r2)
                               ELSE ParseModel(r2)
                         c2 == Append(c1, ForumCall("post_create", r2))
                     IN  IF e2 # NoExc
                         THEN task' = [task EXCEPT ![t] =
                                 RaiseIn(req, e2, create_post_except(e2, EmptyData), c2)]
                         ELSE \E queue \in QueueAnswers :
                           LET e3 == send_to_moderation(queue)
                               c3 == Append(c2, Call("publish_post", IF e3 = NoExc THEN 1 ELSE 0))
                               post == PostData(post_id, topic_id)
                           IN  task' = [task EXCEPT ![t] =
                                 IF e3 # NoExc
                                 THEN RaiseIn(req, e3, create_post_except(e3, post), c3)
                                 ELSE [Return(req, DespResponse(post, "", StatusNotSet), c3)
                                         EXCEPT !.sent = <<ValidatePostMessage(post_id, user)>>]]
    /\ UNCHANGED <<db, categories>>

\* ---- PUT /post/moderate/{post_id}
moderate_post_except(exc, response) ==
    IF exc.type \in {"DiscourseUnavailableError", "DiscourseResourceUnavailableError"}
    THEN DespResponse(response, DEFAULT_INTERNAL_ERROR_MESSAGE, StatusNotSet)
    ELSE IF exc.type = "DiscourseRequestError"
    THEN DespResponse(response, exc.message, StatusNotSet)
    ELSE DespResponse(response, exc.message, HTTP_STATUS_UNAUTHORIZED)

ModeratePost(t, responses) ==
    /\ task[t].pc = "idle"
    /\ \E user \in CurrentUsers, post_id \in PostIds, topic_id \in TopicIds,
          r1 \in responses :
         LET req == Request("moderate_post", [user |-> user, post_id |-> post_id])
             e1 == ensure_user(user, r1)
             c1 == EnsureCalls(user, r1)
         IN  IF e1 # NoExc
             THEN task' = [task EXCEPT ![t] =
                              RaiseIn(req, e1, moderate_post_except(e1, EmptyData), c1)]
             ELSE \E r2 \in responses, author \in Users :
               LET e2 == get_discourse_post(r2)
                   c2 == Append(c1, ForumCall("post_get", r2))
               IN  IF e2 # NoExc
                   THEN task' = [task EXCEPT ![t] =
                           RaiseIn(req, e2, moderate_post_except(e2, EmptyData), c2)]
                   ELSE \E r3 \in responses :
                     LET e3 == edit_discourse_post(r3)
                         c3 == Append(c2, ForumCall("post_edit", r3))
                         post == PostData(post_id, topic_id)
                     IN  task' = [task EXCEPT ![t] =
                           IF e3 # NoExc
                           THEN RaiseIn(req, e3, moderate_post_except(e3, EmptyData), c3)
                           ELSE [Return([req EXCEPT !.args = [user |-> user, post_id |-> post_id,
                                                              author |-> author]],
                                        DespResponse(post, "", StatusNotSet),
                                        Append(c3, Call("send_email", 1)))
                                   EXCEPT !.sent = <<Email(EmailOf(user),
                                       "Post refused by moderation",
                                       <<"Post has been refused by the moderation: ",
                                         <<"cooked", post_id, author>>>>,
                                       IdOf(user))>>]]
    /\ UNCHANGED <<db, categories>>

(***************************************************************************)
(* routes/auth_service.py and services/asset.py                            *)
(***************************************************************************)
\* role names, as sequences of characters
RoleAdmin == <<"a", "d", "m", "i", "n">>
RoleAdminCapital == <<"A", "d", "m", "i", "n">>
RoleAdminUpper == <<"A", "D", "M", "I", "N">>
RoleAdmins == <<"a", "d", "m", "i", "n", "s">>
RoleUser == <<"u", "s", "e", "r">>

\* the role lists the auth service answers with
RoleLists ==
    { <<>>, <<RoleUser>>, <<RoleAdmin>>, <<RoleUser, RoleAdminCapital>>,
      <<RoleAdminUpper, RoleUser>>, <<RoleAdmins>> }

\* str.lower(), on the characters the role names hold
LowerChar(c) ==
    CASE c = "A" -> "a" [] c = "D" -> "d" [] c = "M" -> "m"
      [] c = "I" -> "i" [] c = "N" -> "n" [] OTHER -> c

lower(role) == [i \in 1..Len(role) |-> LowerChar(role[i])]

\* "admin" in current_user_roles, the case not folded
is_admin_case_sensitive(current_user_roles) ==
    \E i \in 1..Len(current_user_roles) : current_user_roles[i] = RoleAdmin

\* "admin" in [role.lower() for role in current_user_roles]
is_admin(current_user_roles) ==
    \E i \in 1..Len(current_user_roles) : lower(current_user_roles[i]) = RoleAdmin

\* the answers of the auth service to GET /profile
ProfileStatuses == {200, 401, 500}

\* get_current_user_roles: with 401 UserNotLoggedInError is raised inside the
\* try block, whose except Exception re-raises it as DiscourseRequestError;
\* with 200 the roles are returned; with any other status the function ends
\* without a return statement and gives None
ROLES_ERROR == "Failed to get current user roles"

get_current_user_roles(status, roles) ==
    IF status = HTTP_STATUS_UNAUTHORIZED
    THEN [exc |-> Exc("DiscourseRequestError", ROLES_ERROR), is_none |-> FALSE, roles |-> <<>>]
    ELSE IF status = HTTP_STATUS_OK
    THEN [exc |-> NoExc, is_none |-> FALSE, roles |-> roles]
    ELSE [exc |-> NoExc, is_none |-> TRUE, roles |-> <<>>]

\* the answers of the auth and asset services to the other calls: a status,
\* and a body that holds the data looked up in it ("payload"), is JSON
\* without that data ("other") or is no JSON
ServiceResponses == [status : {200, 500}, body : {"payload", "other", "not_json"}]

\* a call to the auth or asset service, and its answer
ServiceCall(op, response) ==
    [op |-> op, status |-> response.status, body |-> response.body]

\* the exception raised while the answer of a service is read: response.json()
\* of a body that is no JSON, and the keys of a body that lacks them
json_exception(response) == response_json(response)
keys_exception(response) ==
    IF response_json(response) # NoExc THEN response_json(response)
    ELSE IF response.body = "other" THEN Exc("KeyError", KeyErrorText)
    ELSE NoExc

AUTH_ERROR == 25001
ASSET_ERROR == 25002

\* DespGenericError(status_code=500, message=..., code=...); the message is
\* the f-string, part by part
DespGenericError(message, code) ==
    [type |-> "DespGenericError", message |-> message, code |-> code]

\* _get_asset_owner: a status outside (200, 201) raises AssetRetrievalError
get_asset_owner(response) ==
    IF response.status \notin {200, 201}
    THEN Exc("AssetRetrievalError", "Asset service answered")
    ELSE keys_exception(response)

\* get_mail_from_desp_user_id: the status is only logged; every exception E
\* of the try block is re-raised as DespGenericError with code AUTH_ERROR
\* and the message f"Could not call auth service : {E}"
get_mail_from_desp_user_id(response) ==
    LET E == keys_exception(response)
    IN  IF E # NoExc
        THEN DespGenericError(<<"Could not call auth service : ", E.message>>, AUTH_ERROR)
        ELSE NoExc

\* get_asset: the status is only logged and the JSON returned; every
\* exception E of the try block is re-raised as DespGenericError with code
\* ASSET_ERROR and the message f"Could not call asset-management service : {E}"
get_asset(response) ==
    LET E == json_exception(response)
    IN  IF E # NoExc
        THEN DespGenericError(<<"Could not call asset-management service : ", E.message>>,
                              ASSET_ERROR)
        ELSE NoExc

\* asset['data']['public']['name'] in the message of the notification
asset_name(response) ==
    IF response.body # "payload" THEN Exc("KeyError", KeyErrorText) ELSE NoExc

(***************************************************************************)
(* POST /topic                                                             *)
(***************************************************************************)
\* a text of n characters
Chars(n) == [i \in 1..n |-> "x"]
Titles == {Chars(14), Chars(15), Chars(16)}
Texts == {Chars(19), Chars(20), Chars(21)}

create_topic_except(exc, response) ==
    IF exc.type \in {"DiscourseUnavailableError", "DiscourseResourceUnavailableError"}
    THEN DespResponse(response, DEFAULT_INTERNAL_ERROR_MESSAGE, StatusNotSet)
    ELSE IF exc.type = "DiscourseRequestError"
    THEN DespResponse(response, exc.message, 400)
    ELSE DespResponse(response, exc.message, HTTP_STATUS_UNAUTHORIZED)

\* a notification that goes to the creating user whatever the asset
CreateTopicNotify_creator(t, req, calls, sent, user, asset_id, post) ==
    task' = [task EXCEPT ![t] =
        [Return(req, DespResponse(post, "", StatusNotSet),
                Append(calls, Call("send_email", 1)))
           EXCEPT !.sent = Append(sent, Email(EmailOf(user), "New Post Created",
                                              "A new post has been created.",
                                              IdOf(user)))]]

\* the notification of a created topic: to the creating user for the
\* sentinel asset, else to the owner of the asset
CreateTopicNotify(t, req, calls, sent, user, asset_id, post) ==
    IF asset_id = DISCOURSE_POST_CATEGORY_UUID
    THEN task' = [task EXCEPT ![t] =
            [Return(req, DespResponse(post, "", StatusNotSet),
                    Append(calls, Call("send_email", 1)))
               EXCEPT !.sent = Append(sent, Email(EmailOf(user), "New Post Created",
                                                  "A new post has been created.",
                                                  IdOf(user)))]]
    ELSE \E r1 \in ServiceResponses, owner \in Users :
      LET e1 == get_asset_owner(r1)
          c1 == Append(calls, ServiceCall("asset_owner", r1))
      IN  IF e1 # NoExc
          THEN task' = [task EXCEPT ![t] =
                  [RaiseIn(req, e1, create_topic_except(e1, EmptyData), c1)
                     EXCEPT !.sent = sent]]
          ELSE \E r2 \in ServiceResponses :
            LET e2 == get_mail_from_desp_user_id(r2)
                c2 == Append(c1, ServiceCall("auth_mail", r2))
            IN  IF e2 # NoExc
                THEN task' = [task EXCEPT ![t] =
                        [RaiseIn(req, e2, create_topic_except(e2, EmptyData), c2)
                           EXCEPT !.sent = sent]]
                ELSE \E r3 \in ServiceResponses :
                  LET e3 == IF get_asset(r3) # NoExc THEN get_asset(r3)
                            ELSE asset_name(r3)
                      c3 == Append(c2, ServiceCall("asset_get", r3))
                  IN  task' = [task EXCEPT ![t] =
                        IF e3 # NoExc
                        THEN [RaiseIn(req, e3, create_topic_except(e3, EmptyData), c3)
                                EXCEPT !.sent = sent]
                        ELSE [Return([req EXCEPT !.args = [a \in DOMAIN req.args \cup {"owner"} |->
                                          IF a = "owner" THEN owner ELSE req.args[a]]],
                                     DespResponse(post, "", StatusNotSet),
                                     Append(c3, Call("send_email", 1)))
                                EXCEPT !.sent = Append(sent,
                                    Email(EmailOf(owner), "New Topic created for your asset",
                                          "A new topic has been created for your asset",
                                          IdOf(user)))]]

\* a create_topic that publishes the event of the post before the one of the topic
CreateTopicPublish_post_first(t, req, calls, user, asset_id, post) ==
    \E q1 \in QueueAnswers :
      LET e1 == send_to_moderation(q1)
          c1 == Append(calls, Call("publish_post", IF e1 = NoExc THEN 1 ELSE 0))
          s1 == <<ValidatePostMessage(post.id, user)>>
      IN  IF e1 # NoExc
          THEN task' = [task EXCEPT ![t] =
                           RaiseIn(req, e1, create_topic_except(e1, EmptyData), c1)]
          ELSE \E q2 \in QueueAnswers :
            LET e2 == send_to_moderation(q2)
                c2 == Append(c1, Call("publish_topic", IF e2 = NoExc THEN 1 ELSE 0))
                s2 == Append(s1, ValidateTopicMessage(post.topic_id, user))
            IN  IF e2 # NoExc
                THEN task' = [task EXCEPT ![t] =
                        [RaiseIn(req, e2, create_topic_except(e2, EmptyData), c2)
                           EXCEPT !.sent = s1]]
                ELSE CreateTopicNotify(t, req, c2, s2, user, asset_id, post)

\* after the topic was created: the two moderation events, then the notification
CreateTopicPublish(t, req, calls, user, asset_id, post) ==
    \E q1 \in QueueAnswers :
      LET e1 == send_to_moderation(q1)
          c1 == Append(calls, Call("publish_topic", IF e1 = NoExc THEN 1 ELSE 0))
          s1 == <<ValidateTopicMessage(post.topic_id, user)>>
      IN  IF e1 # NoExc
          THEN task' = [task EXCEPT ![t] =
                           RaiseIn(req, e1, create_topic_except(e1, EmptyData), c1)]
          ELSE \E q2 \in QueueAnswers :
            LET e2 == send_to_moderation(q2)
                c2 == Append(c1, Call("publish_post", IF e2 = NoExc THEN 1 ELSE 0))
                s2 == Append(s1, ValidatePostMessage(post.id, user))
            IN  IF e2 # NoExc
                THEN task' = [task EXCEPT ![t] =
                        [RaiseIn(req, e2, create_topic_except(e2, EmptyData), c2)
                           EXCEPT !.sent = s1]]
                ELSE CreateTopicNotify(t, req, c2, s2, user, asset_id, post)

\* the answers to POST /posts.json with a title: those of the other
\* endpoints, and the ones whose JSON holds the key "error"
TopicAnswers(responses) ==
    responses \cup {[r EXCEPT !.body = "error"] : r \in responses}

\* a create_topic that does not look at the result of the lookup
CreateTopic_without_row(t, responses) ==
    /\ task[t].pc = "idle"
    /\ \E user \in CurrentUsers, asset_id \in Assets, title \in Titles, text \in Texts :
         LET req == Request("create_topic", [user |-> user, asset_id |-> asset_id,
                                             title |-> title, text |-> text])
         IN  IF user = None
             THEN task' = [task EXCEPT ![t] =
                              Escape(req, Exc("AttributeError", "username"), <<>>)]
             ELSE IF Len(title) < MIN_TITLE_SIZE_IN_CHAR
             THEN task' = [task EXCEPT ![t] =
                              Return(req, DespResponse(EmptyData, TITLE_TOO_SHORT, 400), <<>>)]
             ELSE IF Len(text) < MIN_CONTENT_SIZE_IN_CHAR
             THEN task' = [task EXCEPT ![t] =
                              Return(req, DespResponse(EmptyData, CONTENT_TOO_SHORT, 400), <<>>)]
             ELSE \E r1 \in responses :
               LET e1 == ensure_user(user, r1)
                   c1 == EnsureCalls(user, r1)
                   asset_category_id == get_category_asset(db, asset_id)
                   c2 == Append(c1, Call("db_select", asset_category_id))
               IN  IF e1 # NoExc
                   THEN task' = [task EXCEPT ![t] =
                                    RaiseIn(req, e1, create_topic_except(e1, EmptyData), c1)]
                   ELSE \E r3 \in TopicAnswers(responses), post_id \in PostIds, topic_id \in TopicIds :
                     LET e3 == create_discourse_topic(r3)
                         c3 == Append(c2, ForumCall("topic_create", r3))
                     IN  IF e3 # NoExc
                         THEN task' = [task EXCEPT ![t] =
                                 RaiseIn(req, e3, create_topic_except(e3, EmptyData), c3)]
                         ELSE CreateTopicPublish(t, req, c3, user, asset_id,
                                                 PostData(post_id, topic_id))
    /\ UNCHANGED <<db, categories>>

\* create_topic: user.username is read first (AttributeError without a
\* user), then the lengths are checked, then the try block runs
CreateTopic(t, responses) ==
    /\ task[t].pc = "idle"
    /\ \E user \in CurrentUsers, asset_id \in Assets, title \in Titles, text \in Texts :
         LET req == Request("create_topic", [user |-> user, asset_id |-> asset_id,
                                             title |-> title, text |-> text])
         IN  IF user = None
             THEN task' = [task EXCEPT ![t] =
                              Escape(req, Exc("AttributeError", "username"), <<>>)]
             ELSE IF Len(title) < MIN_TITLE_SIZE_IN_CHAR
             THEN task' = [task EXCEPT ![t] =
                              Return(req, DespResponse(EmptyData, TITLE_TOO_SHORT, 400), <<>>)]
             ELSE IF Len(text) < MIN_CONTENT_SIZE_IN_CHAR
             THEN task' = [task EXCEPT ![t] =
                              Return(req, DespResponse(EmptyData, CONTENT_TOO_SHORT, 400), <<>>)]
             ELSE \E r1 \in responses :
               LET e1 == ensure_user(user, r1)
                   c1 == EnsureCalls(user, r1)
                   asset_category_id == get_category_asset(db, asset_id)
                   c2 == Append(c1, Call("db_select", asset_category_id))
               IN  IF e1 # NoExc
                   THEN task' = [task EXCEPT ![t] =
                                    RaiseIn(req, e1, create_topic_except(e1, EmptyData), c1)]
                   ELSE IF asset_category_id = NoCategory
                   THEN task' = [task EXCEPT ![t] =
                           Return(req, DespResponse([kind |-> "Error"], "", 500), c2)]
                   ELSE \E r3 \in TopicAnswers(responses), post_id \in PostIds, topic_id \in TopicIds :
                     LET e3 == create_discourse_topic(r3)
                         c3 == Append(c2, ForumCall("topic_create", r3))
                     IN  IF e3 # NoExc
                         THEN task' = [task EXCEPT ![t] =
                                 RaiseIn(req, e3, create_topic_except(e3, EmptyData), c3)]
                         ELSE CreateTopicPublish(t, req, c3, user, asset_id,
                                                 PostData(post_id, topic_id))
    /\ UNCHANGED <<db, categories>>

(***************************************************************************)
(* DELETE /topic/{topic_id} and DELETE /topic/moderate/{topic_id}          *)
(***************************************************************************)
OWNER_OR_ADMIN == "Only the topic owner or admin can delete the topic."

delete_topic_except(exc, response) ==
    IF exc.type \in {"DiscourseUnavailableError", "DiscourseResourceUnavailableError"}
    THEN DespResponse(response, DEFAULT_INTERNAL_ERROR_MESSAGE, 500)
    ELSE IF exc.type = "DiscourseRequestError"
    THEN DespResponse(response, exc.message, 400)
    ELSE DespResponse(response, exc.message, HTTP_STATUS_UNAUTHORIZED)

\* the check of delete_topic: the caller is neither the owner nor an admin
delete_refused(topic_username, user_username, current_user_roles) ==
    topic_username # user_username /\ ~is_admin(current_user_roles)

\* owner is topic.username, the username of details.created_by of the
\* topic (None without it)
DeleteTopic(t, responses) ==
    /\ task[t].pc = "idle"
    /\ \E user \in CurrentUsers, topic_id \in TopicIds, r1 \in responses :
         LET req == Request("delete_topic", [user |-> user, topic_id |-> topic_id])
             e1 == ensure_user(user, r1)
             c1 == EnsureCalls(user, r1)
         IN  IF e1 # NoExc
             THEN task' = [task EXCEPT ![t] =
                              RaiseIn(req, e1, delete_topic_except(e1, EmptyData), c1)]
             ELSE \E r2 \in responses, owner \in CurrentUsers :
               LET e2 == get_discourse_topic(r2)
                   c2 == Append(c1, ForumCall("topic_get", r2))
               IN  IF e2 # NoExc
                   THEN /\ owner = None
                        /\ task' = [task EXCEPT ![t] =
                              RaiseIn(req, e2, delete_topic_except(e2, EmptyData), c2)]
                   ELSE \E status \in ProfileStatuses, roles \in RoleLists :
                     LET got == get_current_user_roles(status, roles)
                         c3 == Append(c2, Call("auth_roles", status))
                         asked == [req EXCEPT !.args = [user |-> user, topic_id |-> topic_id,
                                                        owner |-> owner, roles |-> got.roles]]
                     IN  /\ status # HTTP_STATUS_OK => roles = <<>>
                         /\ IF got.exc # NoExc
                            THEN task' = [task EXCEPT ![t] =
                                   RaiseIn(asked, got.exc,
                                           delete_topic_except(got.exc, EmptyData), c3)]
                            ELSE IF got.is_none
                            THEN task' = [task EXCEPT ![t] =
                                   RaiseIn(asked, Exc("TypeError", "NoneType is not iterable"),
                                           EmptyData, c3)]
                            ELSE IF delete_refused(owner, user, got.roles)
                            THEN task' = [task EXCEPT ![t] =
                                   Return(asked, DespResponse(EmptyData, OWNER_OR_ADMIN, 403), c3)]
                            ELSE \E r4 \in responses :
                              LET e4 == delete_discourse_topic(r4)
                                  c4 == Append(c3, ForumCall("topic_delete", r4))
                              IN  task' = [task EXCEPT ![t] =
                                    IF e4 # NoExc
                                    THEN RaiseIn(asked, e4,
                                                 delete_topic_except(e4, EmptyData), c4)
                                    ELSE Return(asked, DespResponse(
                                           [kind |-> "message",
                                            message |-> "Topic deleted successfully"],
                                           "", StatusNotSet), c4)]
    /\ UNCHANGED <<db, categories>>

moderate_topic_except(exc, response) ==
    IF exc.type \in {"DiscourseUnavailableError", "DiscourseResourceUnavailableError"}
    THEN DespResponse(response, DEFAULT_INTERNAL_ERROR_MESSAGE, 500)
    ELSE IF exc.type = "DiscourseRequestError"
    THEN DespResponse(response, exc.message, 400)
    ELSE DespResponse(response, exc.message, HTTP_STATUS_UNAUTHORIZED)

\* a moderate_topic with the check of delete_topic on the owner: the answers
\* to a caller who passed ensure_user and whose topic was fetched
ModerateTopic_owner_only(t, responses) ==
    /\ task[t].pc = "idle"
    /\ \E user \in Users, owner \in Users, topic_id \in TopicIds :
       \E r1 \in {r \in responses : ensure_user(user, r) = NoExc},
          r2 \in {r \in responses : get_discourse_topic(r) = NoExc} :
         LET req == Request("moderate_topic", [user |-> user, topic_id |-> topic_id,
                                               owner |-> owner])
             c2 == Append(EnsureCalls(user, r1), ForumCall("topic_get", r2))
         IN  task' = [task EXCEPT ![t] =
               IF owner # user
               THEN Return(req, DespResponse(EmptyData, OWNER_OR_ADMIN, 403), c2)
               ELSE \* the owner itself: deleted, no notification
                    Return(req, DespResponse([kind |-> "message",
                                              message |-> "Topic moderated successfully"],
                                             "", StatusNotSet),
                           Append(c2, Call("topic_delete", 200)))]
    /\ UNCHANGED <<db, categories>>

\* response is the topic that was fetched once get_discourse_topic returned
ModerateTopic(t, responses) ==
    /\ task[t].pc = "idle"
    /\ \E user \in CurrentUsers, topic_id \in TopicIds, r1 \in responses :
         LET req == Request("moderate_topic", [user |-> user, topic_id |-> topic_id])
             e1 == ensure_user(user, r1)
             c1 == EnsureCalls(user, r1)
         IN  IF e1 # NoExc
             THEN task' = [task EXCEPT ![t] =
                              RaiseIn(req, e1, moderate_topic_except(e1, EmptyData), c1)]
             ELSE \E r2 \in responses, owner \in CurrentUsers :
               LET e2 == get_discourse_topic(r2)
                   c2 == Append(c1, ForumCall("topic_get", r2))
                   topic == [kind |-> "topic", id |-> topic_id, username |-> owner,
                             posts |-> <<>>]
                   asked == [req EXCEPT !.args = [user |-> user, topic_id |-> topic_id,
                                                  owner |-> owner]]
               IN  IF e2 # NoExc
                   THEN /\ owner = None
                        /\ task' = [task EXCEPT ![t] =
                              RaiseIn(req, e2, moderate_topic_except(e2, EmptyData), c2)]
                   ELSE \E r3 \in responses :
                     LET e3 == delete_discourse_topic(r3)
                         c3 == Append(c2, ForumCall("topic_delete", r3))
                     IN  task' = [task EXCEPT ![t] =
                           IF e3 # NoExc
                           THEN RaiseIn(asked, e3, moderate_topic_except(e3, topic), c3)
                           ELSE [Return(asked, DespResponse(
                                          [kind |-> "message",
                                           message |-> "Topic moderated successfully"],
                                          "", StatusNotSet),
                                        Append(c3, Call("send_email", 1)))
                                   EXCEPT !.sent = <<Email(EmailOf(user),
                                       "Topic refused by moderation",
                                       <<"Topic has been refused by the moderation: ",
                                         <<"title", topic_id>>>>,
                                       IdOf(user))>>]]
    /\ UNCHANGED <<db, categories>>

(***************************************************************************)
(* The requests of one client after the other: every route, every answer   *)
(* of the forum platform.                                                  *)
(***************************************************************************)
Next ==
    \/ GetCategoryStep("t1", ForumResponses, TopicPayloads)
    \/ GetTopics("t1", ForumResponses, TopicPayloads)
    \/ GetTopic("t1", ForumResponses)
    \/ CreatePost("t1", ForumResponses)
    \/ EditPost("t1", ForumResponses)
    \/ ModeratePost("t1", ForumResponses)
    \/ CreateTopic("t1", ForumResponses)
    \/ DeleteTopic("t1", ForumResponses)
    \/ ModerateTopic("t1", ForumResponses)

Spec == Init /\ [][Next]_vars

(***************************************************************************)
(* The properties.                                                         *)
(***************************************************************************)
\* the forum platform answered the call with success and the documented body
Succeeded(call) == call.status \in {200, 201} /\ call.body = "payload"

\* every call of request req to the forum platform succeeded
AllForumCallsSucceeded(req) ==
    \A i \in 1..Len(req.calls) :
        req.calls[i].op \in ForumOps => Succeeded(req.calls[i])

\* the operations of the calls, in order
Ops(calls) == [i \in 1..Len(calls) |-> calls[i].op]

\* the rows of an asset
RowsOf(asset_id) == {i \in 1..Len(db) : db[i].assetId = asset_id}

\* the topics of a list whose title is not the default message of a category
WithoutDefaults(topics) ==
    SelectSeq(topics, LAMBDA topic :
        topic.title \notin {TitleDefault, TitleDefaultUuid, TitleDefaultUnicode})

\* the ids and titles of the topics of a list, in order
IdsAndTitles(topics) == [i \in 1..Len(topics) |-> <<topics[i].id, topics[i].title>>]

\* C1: a GET /discussion/{asset_id} for an asset without a row, alone and
\* with every forum call succeeding, makes the calls lookup, one category
\* creation, one insert (which stores asset_id -> the id of the created
\* category) and then the topic listing, in that order, and returns the
\* created category with its topics: [] for an empty list.
C1_FirstRequestCreatesAndStoresOnce ==
    \A t \in Tasks :
        LET req == task[t]
            asset_id == req.args.asset_id
        IN  (/\ req.route = "get_category" /\ req.pc = "done"
             /\ req.asset_category_id = NoCategory
             /\ AllForumCallsSucceeded(req))
            => /\ Ops(req.calls) = <<"db_select", "category_create", "db_insert", "topic_list">>
               /\ req.calls[3].status = 1
               /\ Cardinality(RowsOf(asset_id)) = 1
               /\ \A i \in RowsOf(asset_id) : db[i].categoryId = req.category.id
               /\ req.category.id \in 1..Len(categories)
               /\ categories[req.category.id] = CategoryName(asset_id)
               /\ req.raised = NoExc /\ req.response.error = ""
               /\ req.response.data.id = req.category.id
               /\ req.response.data.name = CategoryName(asset_id)
               /\ IdsAndTitles(req.response.data.topics)
                      = IdsAndTitles(WithoutDefaults(req.calls[4].topics))
               /\ (req.calls[4].topics = <<>> => req.response.data.topics = <<>>)

\* a first request answered with an empty topic list
C1_Witness ==
    \E t \in Tasks :
        /\ task[t].route = "get_category" /\ task[t].pc = "done"
        /\ task[t].asset_category_id = NoCategory
        /\ AllForumCallsSucceeded(task[t])
        /\ Len(task[t].calls) = 4
        /\ task[t].calls[4].topics = <<>>
        /\ task[t].response.data.topics = <<>>
        /\ Len(db) = 1

RacedFor(req, asset_id) ==
    /\ req.route = "get_category" /\ req.args.asset_id = asset_id
    /\ req.pc \in {"topics", "done"}
    /\ Len(req.calls) >= 3
    /\ req.calls[1] = Call("db_select", NoCategory)
    /\ req.calls[2].op = "category_create"
    /\ req.calls[3].op = "db_insert"

\* C3: when two concurrent requests for one asset both found no row and
\* both created a category, the insert of exactly one was refused; the
\* refusal raised nothing (the request went on to list topics); the row of
\* the asset holds the category of the other request, and the category of
\* the refused request is in no row.
C3_LosingInsertIsSwallowed ==
    \A asset_id \in Assets :
        (\A t \in Tasks : RacedFor(task[t], asset_id))
        => \E winner \in Tasks, loser \in Tasks :
             /\ winner # loser
             /\ task[winner].calls[3].status = 1
             /\ task[loser].calls[3].status = 0
             /\ task[loser].category.id # task[winner].category.id
             /\ \A i \in RowsOf(asset_id) : db[i].categoryId = task[winner].category.id
             /\ RowsOf(asset_id) # {}
             /\ \A i \in 1..Len(db) : db[i].categoryId # task[loser].category.id
             /\ task[loser].raised.type # "IntegrityError"
             /\ (task[loser].pc = "done" => task[loser].calls[4].op = "topic_list")

\* both requests raced and both are answered
C3_Witness ==
    \E asset_id \in Assets :
        /\ \A t \in Tasks : RacedFor(task[t], asset_id) /\ task[t].pc = "done"
        /\ \E t \in Tasks : task[t].calls[3].status = 0 /\ ~task[t].escaped
                            /\ task[t].response.error = ""

\* C4: when the forum platform answers 404 to the category fetch of an asset
\* that has a row, the request goes on with the category creation call and,
\* when that call succeeds, with the created category (a category of the
\* asset, other than the one of the row); the 404 raises nothing.
C4_NotFoundFallsBackToCreation ==
    \A t \in Tasks :
        LET req == task[t]
        IN  (/\ req.route = "get_category"
             /\ Len(req.calls) >= 2
             /\ req.calls[2].op = "category_fetch"
             /\ req.calls[2].status = NOT_FOUND)
            => /\ req.asset_category_id # NoCategory
               /\ Len(req.calls) = 2 =>
                     req.pc = "create" /\ req.raised = NoExc /\ req.response.error = ""
               /\ Len(req.calls) >= 3 =>
                     /\ req.calls[3].op = "category_create"
                     /\ Succeeded(req.calls[3]) =>
                          /\ req.pc \in {"store", "topics", "done"}
                          /\ req.category.id \in 1..Len(categories)
                          /\ req.category.id # req.asset_category_id
                          /\ req.category.name = CategoryName(req.args.asset_id)
                          /\ categories[req.category.id] = req.category.name
                          /\ (req.pc = "done" /\ ~req.escaped /\ req.response.error = ""
                                => req.response.data.id = req.category.id)
               /\ req.raised.type = "DiscourseResourceUnavailableError" =>
                     req.calls[Len(req.calls)].op = "topic_list"

\* a request whose fetch was answered 404 returned the category it created
C4_Witness ==
    \E t \in Tasks :
        /\ task[t].route = "get_category" /\ task[t].pc = "done"
        /\ Len(task[t].calls) = 5
        /\ task[t].calls[2].op = "category_fetch"
        /\ task[t].calls[2].status = NOT_FOUND
        /\ Succeeded(task[t].calls[3])
        /\ task[t].response.error = ""
        /\ task[t].response.data.id = task[t].category.id
        /\ task[t].response.data.id # task[t].asset_category_id

\* "admin" in any case
AnyCaseAdmin(role) ==
    /\ Len(role) = 5
    /\ role[1] \in {"a", "A"} /\ role[2] \in {"d", "D"} /\ role[3] \in {"m", "M"}
    /\ role[4] \in {"i", "I"} /\ role[5] \in {"n", "N"}

\* the forum and auth calls of a DELETE /topic/{topic_id} succeeded
DeleteCallsSucceeded(req) ==
    /\ req.route = "delete_topic" /\ req.pc = "done"
    /\ Len(req.calls) >= 3
    /\ req.calls[1].op = "ensure_user" /\ req.calls[1].status \in {200, 201}
    /\ req.calls[2].op = "topic_get" /\ Succeeded(req.calls[2])
    /\ req.calls[3].op = "auth_roles" /\ req.calls[3].status = HTTP_STATUS_OK
    /\ \A i \in 4..Len(req.calls) : req.calls[i].status \in {200, 201}

\* C5: DELETE /topic/{topic_id}, its calls succeeding, answers 403 with the
\* owner-or-admin message and makes no delete call exactly when the caller is
\* not the creator of the topic and has no role that is "admin" in any case;
\* otherwise it makes the delete call and returns the success message.
C5_DeleteTopicOwnerOrAdmin ==
    \A t \in Tasks :
        LET req == task[t]
            stranger == /\ req.args.owner # req.args.user
                        /\ \A i \in 1..Len(req.args.roles) : ~AnyCaseAdmin(req.args.roles[i])
            refused == /\ req.response.http_status = 403
                       /\ req.response.error = OWNER_OR_ADMIN
                       /\ \A i \in 1..Len(req.calls) : req.calls[i].op # "topic_delete"
            deleted == /\ Len(req.calls) = 4
                       /\ req.calls[4].op = "topic_delete"
                       /\ req.response.error = ""
                       /\ req.response.data = [kind |-> "message",
                                               message |-> "Topic deleted successfully"]
        IN  DeleteCallsSucceeded(req)
            => /\ ~req.escaped
               /\ refused <=> stranger
               /\ ~stranger => deleted

\* an admin whose role is spelled "Admin" deleted the topic of another user
C5_Witness ==
    \E t \in Tasks :
        /\ DeleteCallsSucceeded(task[t])
        /\ task[t].args.owner # task[t].args.user
        /\ task[t].args.roles = <<RoleUser, RoleAdminCapital>>
        /\ Len(task[t].calls) = 4
        /\ task[t].response.error = ""

\* a caller who is neither the owner nor an admin was refused
C5_WitnessRefused ==
    \E t \in Tasks :
        /\ DeleteCallsSucceeded(task[t])
        /\ task[t].args.owner # task[t].args.user
        /\ task[t].args.roles = <<RoleAdmins>>
        /\ task[t].response.http_status = 403

\* the calls a validation failure of POST /topic must not make
ExternalOps ==
    ForumOps \cup {"db_select", "db_insert", "publish_topic", "publish_post",
                   "send_email", "auth_roles", "auth_mail", "asset_owner", "asset_get"}

\* C6 (as stated): POST /topic with a title shorter than 15 characters
\* answers 400 with the title-too-short message; with a title of 15 or more
\* and a text shorter than 20, 400 with the content-too-short message; in
\* both cases no external call is made; a title of 15 and a text of 20
\* pass the validation.  Violated: without a current user the handler fails
\* on user.username before it checks the lengths.
C6_ShortTitleOrTextIs400 ==
    \A t \in Tasks :
        LET req == task[t]
            silent == \A i \in 1..Len(req.calls) : req.calls[i].op \notin ExternalOps
        IN  (req.route = "create_topic" /\ req.pc = "done")
            => /\ Len(req.args.title) < MIN_TITLE_SIZE_IN_CHAR =>
                    /\ ~req.escaped
                    /\ req.response.http_status = 400
                    /\ req.response.error = TITLE_TOO_SHORT
                    /\ silent
               /\ (/\ Len(req.args.title) >= MIN_TITLE_SIZE_IN_CHAR
                   /\ Len(req.args.text) < MIN_CONTENT_SIZE_IN_CHAR) =>
                    /\ ~req.escaped
                    /\ req.response.http_status = 400
                    /\ req.response.error = CONTENT_TOO_SHORT
                    /\ silent
               /\ (Len(req.args.title) = 15 /\ Len(req.args.text) = 20) =>
                    req.response.error \notin {TITLE_TOO_SHORT, CONTENT_TOO_SHORT}

\* the routes that write to the forum platform
WriteRoutes ==
    {"create_topic", "create_post", "delete_topic", "edit_post", "moderate_post",
     "moderate_topic"}

\* the forum calls that write
ForumWrites == {"topic_create", "topic_delete", "post_create", "post_edit"}

\* C7 (as stated): a write route called without a current user raises
\* AuthenticationNeededError before any forum write and answers 401 with the
\* message of that error.  Violated: PUT /post/{post_id} never asks for the
\* user, POST /topic and POST /topic/{topic_id} fail on user.username.
C7_WriteRoutesNeedUser ==
    \A t \in Tasks :
        LET req == task[t]
        IN  (req.route \in WriteRoutes /\ req.pc = "done" /\ req.args.user = None)
            => /\ req.raised = Exc("AuthenticationNeededError", AUTHENTICATION_NEEDED)
               /\ ~req.escaped
               /\ req.response.http_status = HTTP_STATUS_UNAUTHORIZED
               /\ req.response.error = AUTHENTICATION_NEEDED
               /\ \A i \in 1..Len(req.calls) : req.calls[i].op \notin ForumWrites

\* C8 (as stated): a 5xx answer to any forum call is raised as
\* DiscourseUnavailableError before the payload is read (the call is the
\* last of the request) and the route answers the generic internal error
\* message.  Violated: the topic listing does not await the classifier.
C8_ServerErrorIsPlatformUnavailable ==
    \A t \in Tasks :
        LET req == task[t]
        IN  \A i \in 1..Len(req.calls) :
              (req.calls[i].op \in ForumOps /\ is_a_5xx_error(req.calls[i].status))
              => /\ i = Len(req.calls)
                 /\ req.pc = "done"
                 /\ req.raised.type = "DiscourseUnavailableError"
                 /\ ~req.escaped
                 /\ req.response.error = DEFAULT_INTERNAL_ERROR_MESSAGE

\* the forum calls of C9: every one but ensure_user, the category fetch and
\* the category creation
NotFoundOps ==
    {"topic_list", "topic_create", "topic_get", "topic_get_posts", "topic_delete",
     "post_create", "post_get", "post_edit"}

\* C9 (as stated): a 404 answer to a forum call other than the category
\* fetch is raised as DiscourseResourceUnavailableError, its body is never
\* read as a payload.  Violated: the classifier has no branch for 404 and
\* only the topic listing checks for it.
C9_NotFoundIsResourceUnavailable ==
    \A t \in Tasks :
        LET req == task[t]
        IN  \A i \in 1..Len(req.calls) :
              (req.calls[i].op \in NotFoundOps /\ req.calls[i].status = NOT_FOUND)
              => /\ i = Len(req.calls)
                 /\ req.pc = "done"
                 /\ req.raised.type = "DiscourseResourceUnavailableError"

\* C10 (as stated): a 403 answer to any forum call is raised as
\* DiscourseAuthenticationError, the exception does not leave the handler
\* and the route answers a response whose error is the generic internal
\* error message.  Violated: no except clause of the routes names
\* DiscourseAuthenticationError.
C10_ForbiddenIsGenericError ==
    \A t \in Tasks :
        LET req == task[t]
        IN  \A i \in 1..Len(req.calls) :
              (req.calls[i].op \in ForumOps /\ req.calls[i].status = FORBIDDEN)
              => /\ i = Len(req.calls)
                 /\ req.pc = "done"
                 /\ req.raised.type = "DiscourseAuthenticationError"
                 /\ ~req.escaped
                 /\ req.response.error = DEFAULT_INTERNAL_ERROR_MESSAGE

\* the exception types of the service (models/exceptions.py)
Taxonomy ==
    {"DiscourseUnavailableError", "DiscourseResourceUnavailableError",
     "DiscourseRequestError", "AuthenticationNeededError",
     "DiscourseAuthenticationError", "SendPostModerationError",
     "AssetRetrievalError", "UserNotLoggedInError"}

\* C11 (as stated): whatever exception of the taxonomy a handler raises, the
\* route answers a {data, error, http_status} response and the exception
\* does not leave the handler.  Violated: the except clauses name four of
\* the eight types.
C11_TaxonomyIsMapped ==
    \A t \in Tasks :
        (task[t].pc = "done" /\ task[t].raised.type \in Taxonomy)
        => /\ ~task[t].escaped
           /\ task[t].response # NoResponse

\* the publishes of request req, and the last of them
Publishes(req) ==
    {i \in 1..Len(req.calls) : req.calls[i].op \in {"publish_topic", "publish_post"}}

\* C12: in POST /topic and POST /topic/{topic_id}, a publish to the queue
\* that fails after the forum created the content is raised as
\* SendPostModerationError; it is the last call of the request: no delete
\* and no edit is sent to the forum platform for the content created, and
\* nothing is published or mailed after it.
C12_PublishFailureKeepsContent ==
    \A t \in Tasks :
        LET req == task[t]
        IN  \A i \in Publishes(req) :
              (/\ req.route \in {"create_topic", "create_post"}
               /\ req.calls[i].status = 0
               /\ \E k \in 1..(i - 1) :
                      /\ req.calls[k].op \in {"topic_create", "post_create"}
                      /\ Succeeded(req.calls[k]))
              => /\ req.pc = "done"
                 /\ req.raised = Exc("SendPostModerationError", "")
                 /\ i = Len(req.calls)
                 /\ \A k \in 1..Len(req.calls) :
                        req.calls[k].op \notin {"topic_delete", "post_edit"}
                 /\ \A k \in 1..Len(req.sent) : req.sent[k].channel = "moderation"

\* the topic was created, its event published, and the publish of the event
\* of its first post failed
C12_Witness ==
    \E t \in Tasks :
        /\ task[t].route = "create_topic" /\ task[t].pc = "done"
        /\ Len(task[t].calls) = 5
        /\ task[t].calls[3].op = "topic_create" /\ Succeeded(task[t].calls[3])
        /\ task[t].calls[4] = Call("publish_topic", 1)
        /\ task[t].calls[5] = Call("publish_post", 0)
        /\ task[t].raised.type = "SendPostModerationError"
        /\ Len(task[t].sent) = 1

\* the list call of a request that listed topics and returned them
ListedBy(req) ==
    {i \in 1..Len(req.calls) :
        /\ req.calls[i].op = "topic_list"
        /\ req.pc = "done" /\ req.raised = NoExc
        /\ req.route \in {"get_category", "get_topics"}}

\* C13: the topics GET /discussion/{asset_id} and GET /topics/{slug}/{category}
\* return are the topics of the payload whose title is not a default
\* message "About the <digits>_<hex digits and dashes> category", in the
\* order of the payload; no returned topic has such a title, and a topic
\* titled "About the 1 category" is returned.
C13_ListingDropsDefaultMessages ==
    \A t \in Tasks :
        LET req == task[t]
        IN  \A i \in ListedBy(req) :
              LET payload == req.calls[i].topics
                  returned == req.response.data.topics
              IN  /\ IdsAndTitles(returned) = IdsAndTitles(WithoutDefaults(payload))
                  /\ \A k \in 1..Len(returned) :
                        returned[k].title \notin {TitleDefault, TitleDefaultUuid}
                  /\ \A k \in 1..Len(payload) :
                        payload[k].title \in {TitleAbout1, TitleReal, TitleNoHex,
                                              TitleNoDigit, TitleQuoted}
                        => \E j \in 1..Len(returned) : returned[j].id = payload[k].id

\* a list of three topics, one of them a default message, returned as two
C13_Witness ==
    \E t \in Tasks :
        /\ task[t].route = "get_topics"
        /\ ListedBy(task[t]) # {}
        /\ Len(task[t].calls[1].topics) = 3
        /\ IdsAndTitles(task[t].response.data.topics)
             = <<<<67, TitleReal>>, <<70, TitleNoHex>>>>

\* GET /discussion/{asset_id} of request req found no row, created the
\* category and was answered the list of the placeholder "About the 1
\* category" and one real topic
PlaceholderScenario(req) ==
    /\ req.route = "get_category" /\ req.pc = "done" /\ req.raised = NoExc
    /\ req.asset_category_id = NoCategory
    /\ Len(req.calls) = 4
    /\ req.calls[4].op = "topic_list"
    /\ IdsAndTitles(req.calls[4].topics) = <<<<66, TitleAbout1>>, <<67, TitleReal>>>>

\* C14 (as stated): in the scenario the response holds only the real topic,
\* with the id and the name of the category.  Violated: the placeholder
\* title has no "<digits>_<id>" part and is not filtered.
C14_OnlyTheRealTopic ==
    \A t \in Tasks :
        PlaceholderScenario(task[t])
        => /\ IdsAndTitles(task[t].response.data.topics) = <<<<67, TitleReal>>>>
           /\ task[t].response.data.id = task[t].category.id
           /\ task[t].response.data.name = task[t].category.name

\* C14 (amended): in the scenario the response holds both topics, the
\* placeholder "About the 1 category" first and the real topic second, with
\* the id and the name of the category the forum platform created.
C14_PlaceholderIsKept ==
    \A t \in Tasks :
        PlaceholderScenario(task[t])
        => /\ IdsAndTitles(task[t].response.data.topics)
                = <<<<66, TitleAbout1>>, <<67, TitleReal>>>>
           /\ task[t].response.error = ""
           /\ task[t].response.data.id = task[t].category.id
           /\ task[t].response.data.name = task[t].category.name
           /\ task[t].category.id \in 1..Len(categories)

\* the scenario with the first category of the forum platform (id 1)
C14_Witness ==
    \E t \in Tasks :
        /\ PlaceholderScenario(task[t])
        /\ AllForumCallsSucceeded(task[t])
        /\ task[t].response.data.id = 1
        /\ Len(task[t].response.data.topics) = 2

\* the posters of a list that are described as original poster
Originals(posters) ==
    {i \in 1..Len(posters) :
        posters[i].description \in {OriginalPoster, OriginalAndMostRecent}}

\* the username the users table of the payloads has for a user id
UsernameOfId(user_id) ==
    CASE user_id = 1 -> "alice" [] user_id = 2 -> "bob" [] OTHER -> None

\* the username C15 gives a topic
ExpectedUsername(posters) ==
    IF Originals(posters) = {} THEN None
    ELSE UsernameOfId(posters[CHOOSE i \in Originals(posters) :
                                 \A j \in Originals(posters) : i <= j].user_id)

\* C15: the username of a listed topic is the username the users table of
\* the payload has for the user_id of the first poster whose description
\* holds "Original Poster"; it is None when the topic has no such poster
\* and when the users table has no entry for that user_id.
C15_UsernameOfOriginalPoster ==
    \A t \in Tasks :
        LET req == task[t]
        IN  \A i \in ListedBy(req) :
              \A k \in 1..Len(req.response.data.topics) :
                LET returned == req.response.data.topics[k]
                    payload == req.calls[i].topics
                IN  \E j \in 1..Len(payload) :
                      /\ payload[j].id = returned.id
                      /\ returned.username = ExpectedUsername(payload[j].posters)

\* a list whose topics have an original poster unknown to the users table
\* (None) and two original posters (the first one counts)
C15_Witness ==
    \E t \in Tasks :
        /\ task[t].route = "get_topics"
        /\ ListedBy(task[t]) # {}
        /\ Len(task[t].response.data.topics) = 2
        /\ task[t].calls[1].topics[1].posters = PostersUnknown
        /\ task[t].response.data.topics[1].username = None
        /\ task[t].calls[1].topics[3].posters = PostersTwoOriginal
        /\ task[t].response.data.topics[2].username = "bob"

\* a topic whose original poster is its third poster, described together
\* with another role in another topic
C15_WitnessLaterPoster ==
    \E t \in Tasks :
        /\ task[t].route = "get_category"
        /\ ListedBy(task[t]) # {}
        /\ Len(task[t].response.data.topics) = 1
        /\ task[t].response.data.topics[1].id = 67
        /\ task[t].response.data.topics[1].username = "bob"

\* C16 (as stated): the rejection email of PUT /post/moderate/{post_id} and
\* of DELETE /topic/moderate/{topic_id} goes to the user who created the
\* post, respectively the topic, whoever calls the endpoint, and its message
\* holds the content of the post, respectively the title of the topic, as
\* fetched before the edit or the delete.  Violated: the email goes to
\* user.profile.email of the caller.
C16_RejectionGoesToAuthor ==
    \A t \in Tasks :
        LET req == task[t]
        IN  /\ (req.route = "moderate_post" /\ req.pc = "done" /\ Len(req.sent) = 1)
               => /\ req.sent[1].user_email = EmailOf(req.args.author)
                  /\ req.sent[1].message[2] = <<"cooked", req.args.post_id, req.args.author>>
            /\ (req.route = "moderate_topic" /\ req.pc = "done" /\ Len(req.sent) = 1)
               => /\ req.sent[1].user_email = EmailOf(req.args.owner)
                  /\ req.sent[1].message[2] = <<"title", req.args.topic_id>>

\* the emails request req sent
Emails(req) == {i \in 1..Len(req.sent) : req.sent[i].channel = "email"}

\* POST /topic of request req created the topic and published both events
TopicPublished(req) ==
    /\ req.route = "create_topic" /\ req.pc = "done"
    /\ Len(req.calls) >= 5
    /\ req.calls[3].op = "topic_create" /\ Succeeded(req.calls[3])
    /\ req.calls[4] = Call("publish_topic", 1)
    /\ req.calls[5] = Call("publish_post", 1)

\* the lookups of the asset and auth services request req made
Lookups(req) ==
    {i \in 1..Len(req.calls) : req.calls[i].op \in {"asset_owner", "auth_mail", "asset_get"}}

\* C17 (as stated): after a POST /topic whose topic creation and publishes
\* succeeded exactly one email is sent: to the creating user for the
\* sentinel asset, else to the owner of the asset and never to the creating
\* user.  Violated: a failed lookup of the owner, of its email or of the
\* asset ends the request without an email; an owner who creates a topic on
\* its own asset is the one notified.
C17_OneNotification ==
    \A t \in Tasks :
        LET req == task[t]
        IN  TopicPublished(req)
            => /\ Cardinality(Emails(req)) = 1
               /\ \A i \in Emails(req) :
                    IF req.args.asset_id = DISCOURSE_POST_CATEGORY_UUID
                    THEN req.sent[i].user_email = EmailOf(req.args.user)
                    ELSE /\ req.sent[i].user_email = EmailOf(req.args.owner)
                         /\ req.sent[i].user_email # EmailOf(req.args.user)

\* C17 (amended): after a POST /topic whose topic creation and publishes
\* succeeded, for the sentinel asset exactly one email is sent, to the
\* creating user, without any lookup; for another asset the owner, its email
\* and the asset are looked up and, when the three lookups succeed, exactly
\* one email is sent, to the email of the owner (the creating user when it
\* owns the asset, else not the creating user); when a lookup fails no
\* email is sent.
C17_NotificationRecipient ==
    \A t \in Tasks :
        LET req == task[t]
        IN  TopicPublished(req)
            => IF req.args.asset_id = DISCOURSE_POST_CATEGORY_UUID
               THEN /\ Lookups(req) = {}
                    /\ Cardinality(Emails(req)) = 1
                    /\ \A i \in Emails(req) : req.sent[i].user_email = EmailOf(req.args.user)
                    /\ req.raised = NoExc
               ELSE IF req.raised = NoExc
               THEN /\ Ops(SubSeq(req.calls, 6, Len(req.calls)))
                         = <<"asset_owner", "auth_mail", "asset_get", "send_email">>
                    /\ Cardinality(Emails(req)) = 1
                    /\ \A i \in Emails(req) :
                         /\ req.sent[i].user_email = EmailOf(req.args.owner)
                         /\ req.args.owner # req.args.user
                              => req.sent[i].user_email # EmailOf(req.args.user)
               ELSE /\ Emails(req) = {}
                    /\ Lookups(req) # {}
                    /\ req.calls[Len(req.calls)].op \in {"asset_owner", "auth_mail", "asset_get"}

\* a topic on the asset of another user: the owner is notified
C17_Witness ==
    \E t \in Tasks :
        /\ TopicPublished(task[t])
        /\ task[t].raised = NoExc
        /\ task[t].args.asset_id # DISCOURSE_POST_CATEGORY_UUID
        /\ task[t].args.user = "alice" /\ task[t].args.owner = "bob"
        /\ Len(task[t].sent) = 3
        /\ task[t].sent[3].user_email = EmailOf("bob")

\* a topic on the sentinel asset: the creating user is notified
C17_WitnessSentinel ==
    \E t \in Tasks :
        /\ TopicPublished(task[t])
        /\ task[t].args.asset_id = DISCOURSE_POST_CATEGORY_UUID
        /\ Len(task[t].sent) = 3
        /\ task[t].sent[3].user_email = EmailOf(task[t].args.user)

\* C18: DELETE /topic/moderate/{topic_id} never fetches the roles of the
\* caller and never answers 403; once ensure_user passed and the topic was
\* fetched its next call is the delete, whoever created the topic; after a
\* delete that raised nothing exactly one email is sent, the rejection
\* notification, and the route answers the success message.
C18_ModerateBypassesOwnerCheck ==
    \A t \in Tasks :
        LET req == task[t]
        IN  (req.route = "moderate_topic" /\ req.pc = "done")
            => /\ \A i \in 1..Len(req.calls) : req.calls[i].op # "auth_roles"
               /\ req.response.http_status # 403
               /\ req.response.error # OWNER_OR_ADMIN
               /\ (/\ Len(req.calls) >= 2
                   /\ req.calls[1].status \in {200, 201}
                   /\ Succeeded(req.calls[2]))
                  => /\ Len(req.calls) >= 3
                     /\ req.calls[3].op = "topic_delete"
                     /\ req.calls[3].status \in {200, 201} =>
                          /\ req.raised = NoExc
                          /\ Cardinality(Emails(req)) = 1
                          /\ Len(req.sent) = 1
                          /\ req.sent[1].subject = "Topic refused by moderation"
                          /\ req.response.data.message = "Topic moderated successfully"
                          /\ Ops(req.calls)
                               = <<"ensure_user", "topic_get", "topic_delete", "send_email">>

\* a caller who did not create the topic moderated it
C18_Witness ==
    \E t \in Tasks :
        /\ task[t].route = "moderate_topic" /\ task[t].pc = "done"
        /\ task[t].raised = NoExc
        /\ Len(task[t].calls) = 4
        /\ task[t].args.user = "alice" /\ task[t].args.owner = "bob"
        /\ task[t].calls[3].op = "topic_delete" /\ task[t].calls[3].status = 200
        /\ Len(task[t].sent) = 1

\* the moderation events request req published
Events(req) == {i \in 1..Len(req.sent) : req.sent[i].channel = "moderation"}

\* the decimal digits of the post id and of the topic id of the requests
Post101 == <<"1", "0", "1">>
Topic67 == <<"6", "7">>

\* C19: every moderation event published for a created post has status
\* Auto_Pending, the post id as content_id, the id of the acting user, the
\* one routing entry Text_Toxicity, no accept callback and the one reject
\* callback PUT /post/moderate/<post id> with the blocked-content text as
\* payload; the event of a created topic has the topic id as content_id and
\* the one reject callback DELETE /topic/moderate/<topic id>.
C19_ModerationEventShape ==
    \A t \in Tasks :
        LET req == task[t]
        IN  \A i \in Events(req) :
              LET event == req.sent[i]
                  callback == event.reject_callbacks[1]
              IN  /\ req.route \in {"create_post", "create_topic"}
                  /\ event.status = "Auto_Pending"
                  /\ event.user_id = IdOf(req.args.user)
                  /\ event.auto_mod_routing = <<"Text_Toxicity">>
                  /\ event.accept_callbacks = <<>>
                  /\ Len(event.reject_callbacks) = 1
                  /\ callback.payload = [text |-> "[Content has been blocked]"]
                  /\ event.fonctionnal_area \in {"DiscussionPost", "DiscussionTopic"}
                  /\ event.fonctionnal_area = "DiscussionPost" =>
                       /\ event.content_id = Post101
                       /\ callback.method = "PUT"
                       /\ callback.url = <<"/post/moderate/", Post101>>
                       /\ req.raised = NoExc => req.response.data.id = 101
                  /\ event.fonctionnal_area = "DiscussionTopic" =>
                       /\ req.route = "create_topic"
                       /\ event.content_id = Topic67
                       /\ callback.method = "DELETE"
                       /\ callback.url = <<"/topic/moderate/", Topic67>>
                       /\ req.raised = NoExc => req.response.data.topic_id = 67
                  /\ req.route = "create_post" => event.fonctionnal_area = "DiscussionPost"

\* a created topic published its two events, the one of the topic first
C19_Witness ==
    \E t \in Tasks :
        /\ task[t].route = "create_topic" /\ task[t].pc = "done"
        /\ task[t].raised = NoExc
        /\ Cardinality(Events(task[t])) = 2
        /\ task[t].sent[1].fonctionnal_area = "DiscussionTopic"
        /\ task[t].sent[2].fonctionnal_area = "DiscussionPost"

\* a created post published its event
C19_WitnessPost ==
    \E t \in Tasks :
        /\ task[t].route = "create_post" /\ task[t].pc = "done"
        /\ task[t].raised = NoExc
        /\ Cardinality(Events(task[t])) = 1
        /\ task[t].sent[1].content_id = Post101

\* C20: no step of the service changes or removes a row of the association
\* table: every row stays where it is, unchanged; a step that changes the
\* table appends one row, and it is the insert of create_category for the
\* asset and the category of its request.
C20_RowsAreOnlyAdded ==
    [][ /\ Len(db') >= Len(db)
        /\ \A i \in 1..Len(db) : db'[i] = db[i]
        /\ db' # db =>
             /\ Len(db') = Len(db) + 1
             /\ \E t \in Tasks :
                  /\ task[t].route = "get_category" /\ task[t].pc = "store"
                  /\ task'[t].calls[Len(task'[t].calls)] = Call("db_insert", 1)
                  /\ db'[Len(db')] = Row(task[t].args.asset_id, task[t].category.id)
      ]_vars

\* a row is stored and a later request, answered 404 on the category fetch,
\* created another category whose insert left the table as it was
C20_Witness ==
    \E t \in Tasks :
        /\ task[t].route = "get_category" /\ task[t].pc = "done"
        /\ Len(db) = 1
        /\ task[t].asset_category_id = db[1].categoryId
        /\ task[t].args.asset_id = db[1].assetId
        /\ \E i \in 1..Len(task[t].calls) : task[t].calls[i] = Call("db_insert", 0)
        /\ task[t].category.id # db[1].categoryId

\* C21: when the asset has a row and the fetch of its category succeeds
\* (2xx with the category), the GET /discussion request makes no category
\* creation call and no insert, goes on with the fetched category (the id of
\* the row, the name the platform has for it) and, when the listing
\* succeeds, returns that id and name with the topics of the listing.
C21_FetchedCategoryIsReturned ==
    \A t \in Tasks :
        LET req == task[t]
        IN  (/\ req.route = "get_category"
             /\ Len(req.calls) >= 2
             /\ req.calls[2].op = "category_fetch"
             /\ Succeeded(req.calls[2]))
            => /\ req.asset_category_id # NoCategory
               /\ req.asset_category_id = req.calls[1].status
               /\ \A i \in 1..Len(req.calls) :
                     req.calls[i].op \notin {"category_create", "db_insert"}
               /\ req.category = Category(req.asset_category_id,
                                          categories[req.asset_category_id])
               /\ Len(req.calls) = 2 => req.pc = "topics" /\ req.raised = NoExc
               /\ (req.pc = "done" /\ req.raised = NoExc)
                     => /\ Ops(req.calls) = <<"db_select", "category_fetch", "topic_list">>
                        /\ req.response.error = ""
                        /\ req.response.data.id = req.asset_category_id
                        /\ req.response.data.name = categories[req.asset_category_id]
                        /\ IdsAndTitles(req.response.data.topics)
                             = IdsAndTitles(WithoutDefaults(req.calls[3].topics))

\* a request fetched the category of the row and returned it with a topic,
\* and the asset still has its one row
C21_Witness ==
    \E t \in Tasks :
        /\ task[t].route = "get_category" /\ task[t].pc = "done"
        /\ task[t].raised = NoExc
        /\ Len(task[t].calls) = 3
        /\ Succeeded(task[t].calls[2])
        /\ task[t].response.data.id = task[t].asset_category_id
        /\ Len(task[t].response.data.topics) >= 1
        /\ Cardinality(RowsOf(task[t].args.asset_id)) = 1

\* the nine fields of a post that the response carries
PostFields ==
    {"id", "name", "username", "display_username", "user_id", "avatar_template",
     "created_at", "cooked", "topic_id"}

\* C22: a GET /topic/{topic_id} whose forum call is answered 2xx with a
\* topic returns that topic with one post per post of post_stream.posts, in
\* the same order, each of them the post of the platform restricted to the
\* fields id, name, username, display_username, user_id, avatar_template,
\* created_at, cooked and topic_id; the username of the topic is the one of
\* details.created_by when the answer has it.
C22_PostsAreProjected ==
    \A t \in Tasks :
        LET req == task[t]
        IN  (/\ req.route = "get_topic" /\ req.pc = "done"
             /\ Succeeded(req.calls[1]))
            => LET topic == req.calls[1].topic
                   platform == topic.post_stream.posts
                   posts == req.response.data.posts
               IN  /\ req.raised = NoExc /\ req.response.error = ""
                   /\ Ops(req.calls) = <<"topic_get_posts">>
                   /\ req.response.data.id = topic.id
                   /\ req.response.data.title = topic.title
                   /\ Len(posts) = Len(platform)
                   /\ \A i \in 1..Len(posts) :
                        /\ DOMAIN posts[i] = PostFields
                        /\ \A f \in PostFields : posts[i][f] = platform[i][f]
                   /\ (topic.details.has_details /\ topic.details.has_created_by)
                        => req.response.data.username = topic.details.created_by.username

\* a topic with two posts, the later one first, was returned with the
\* username of its creator, which is not the "username" of the topic
C22_Witness ==
    \E t \in Tasks :
        /\ task[t].route = "get_topic" /\ task[t].pc = "done"
        /\ Succeeded(task[t].calls[1])
        /\ Len(task[t].response.data.posts) = 2
        /\ task[t].response.data.posts[1].id = 102
        /\ task[t].response.data.posts[2].id = 101
        /\ task[t].calls[1].topic.username = "bob"
        /\ task[t].response.data.username = "alice"

\* the request ended in its last call, a call to the auth service for the
\* email of an owner or to the asset service for an asset, because an
\* exception was raised while the answer was read
ServiceCallFailed(req) ==
    /\ req.pc = "done" /\ Len(req.calls) > 0
    /\ LET last == req.calls[Len(req.calls)]
       IN  \/ last.op = "auth_mail" /\ keys_exception(last) # NoExc
           \/ last.op = "asset_get" /\ json_exception(last) # NoExc

\* str(E) of the exception raised while the answer of a call was read
OriginalText(call) ==
    IF call.op = "auth_mail" THEN keys_exception(call).message
    ELSE json_exception(call).message

\* C23 (as stated): an exception raised while the auth service is called for
\* the email of an owner, or the asset service for an asset, is re-raised as
\* DespGenericError with the code 25001 (auth) or 25002 (asset), and no part
\* of its message is the text of the original exception.  Violated: the
\* message ends with str(E).
C23_GenericErrorHidesExceptionText ==
    \A t \in Tasks :
        LET req == task[t]
            last == req.calls[Len(req.calls)]
        IN  ServiceCallFailed(req)
            => /\ req.raised.type = "DespGenericError"
               /\ req.raised.code = IF last.op = "auth_mail" THEN 25001 ELSE 25002
               /\ \A i \in 1..Len(req.raised.message) :
                     req.raised.message[i] # OriginalText(last)

\* the call of request req to GET /profile of the auth service, if it made one
RolesCalls(req) == {i \in 1..Len(req.calls) : req.calls[i].op = "auth_roles"}

\* C24 (as stated): when the auth service answers 401 to GET /profile,
\* get_current_user_roles raises the authentication-needed error, so that
\* DELETE /topic/{topic_id} answers HTTP 401 and makes no delete call to the
\* forum.  Violated: the error raised for the 401 is caught inside
\* get_current_user_roles and leaves it as DiscourseRequestError, which the
\* route answers with HTTP 400.
C24_UnauthorizedProfileIs401 ==
    \A t \in Tasks :
        LET req == task[t]
        IN  (/\ req.route = "delete_topic" /\ req.pc = "done"
             /\ \E i \in RolesCalls(req) : req.calls[i].status = HTTP_STATUS_UNAUTHORIZED)
            => /\ req.raised.type = "AuthenticationNeededError"
               /\ req.response.http_status = 401
               /\ \A i \in 1..Len(req.calls) : req.calls[i].op # "topic_delete"

\* C25 (as stated): whatever the status of GET /profile,
\* get_current_user_roles returns a list or raises; for a status other than
\* 200 and 401 it raises DiscourseRequestError, so that a DELETE
\* /topic/{topic_id} that ends with this call ends in a response.  Violated:
\* for such a status it returns None, and the TypeError of iterating None
\* leaves the handler.
C25_RolesAreAListOrAnError ==
    \A t \in Tasks :
        LET req == task[t]
            last == req.calls[Len(req.calls)]
        IN  (/\ req.route = "delete_topic" /\ req.pc = "done"
             /\ Len(req.calls) > 0 /\ last.op = "auth_roles")
            => /\ ~req.escaped
               /\ req.response.http_status \in {400, 403}
               /\ last.status \notin {HTTP_STATUS_OK, HTTP_STATUS_UNAUTHORIZED}
                     => req.raised.type = "DiscourseRequestError"

\* the calls of request req to set_category_asset that were refused
RefusedInserts(req) ==
    {i \in 1..Len(req.calls) : req.calls[i] = Call("db_insert", 0)}

\* C26: a GET /discussion request whose insert was refused (another request
\* stored a category for the asset first) goes on with the category it
\* created itself, which is in no row, and when its listing succeeds it
\* returns that category with the topics of the listing; when two concurrent
\* requests for an asset without a row are both answered this way or with
\* the stored category, their category ids differ and exactly one of them
\* is the one of the row.
C26_LoserReturnsItsOwnCategory ==
    /\ \A t \in Tasks :
         LET req == task[t]
         IN  \A i \in RefusedInserts(req) :
               /\ req.route = "get_category"
               /\ req.calls[i - 1].op = "category_create"
               /\ req.calls[i - 1].body = "payload"
               /\ req.category.id \in 1..Len(categories)
               /\ req.category.name = CategoryName(req.args.asset_id)
               /\ \A r \in 1..Len(db) : db[r].categoryId # req.category.id
               /\ RowsOf(req.args.asset_id) # {}
               /\ (req.pc = "done" /\ req.raised = NoExc)
                    => /\ Len(req.calls) = i + 1
                       /\ req.calls[i + 1].op = "topic_list"
                       /\ req.response.error = ""
                       /\ req.response.data.id = req.category.id
                       /\ req.response.data.name = req.category.name
                       /\ IdsAndTitles(req.response.data.topics)
                            = IdsAndTitles(WithoutDefaults(req.calls[i + 1].topics))
    /\ \A asset_id \in Assets :
         (\A t \in Tasks : /\ RacedFor(task[t], asset_id)
                           /\ task[t].pc = "done" /\ task[t].raised = NoExc)
         => /\ task["t1"].response.data.id # task["t2"].response.data.id
            /\ Cardinality({t \in Tasks :
                              \E r \in RowsOf(asset_id) :
                                 db[r].categoryId = task[t].response.data.id}) = 1

\* two concurrent requests for an asset without a row were both answered,
\* with two different category ids, and the one whose insert was refused
\* returned a topic
C26_Witness ==
    \E asset_id \in Assets, loser \in Tasks :
        /\ \A t \in Tasks : /\ RacedFor(task[t], asset_id)
                            /\ task[t].pc = "done" /\ task[t].raised = NoExc
        /\ task["t1"].response.data.id # task["t2"].response.data.id
        /\ RefusedInserts(task[loser]) # {}
        /\ Len(task[loser].response.data.topics) >= 1
        /\ \A r \in RowsOf(asset_id) : db[r].categoryId # task[loser].response.data.id

\* request req found a row for its asset, was answered 404 by the fetch of
\* the category of the row, created a category and went through
\* set_category_asset
Repointed(req) ==
    /\ req.route = "get_category"
    /\ Len(req.calls) >= 4
    /\ req.calls[2].op = "category_fetch" /\ req.calls[2].status = NOT_FOUND
    /\ Succeeded(req.calls[3])
    /\ req.calls[4].op = "db_insert"

\* the lookup of an asset that has a row gives the same category id after
\* every step
LookupIsStable ==
    \A asset_id \in Assets :
        get_category_asset(db, asset_id) # NoCategory
            => get_category_asset(db', asset_id) = get_category_asset(db, asset_id)

\* C27: when the category of the row of an asset is answered 404, the
\* request creates a new category, one the platform did not have, but the
\* lookup of the asset goes on giving the category id of the row, whatever
\* happens later, so that every later request whose fetch is answered 404
\* creates one more category.
C27_AssociationIsNeverRepaired ==
    /\ [][LookupIsStable]_vars
    /\ [](\A t \in Tasks :
            Repointed(task[t])
            => /\ get_category_asset(db, task[t].args.asset_id) = task[t].asset_category_id
               /\ task[t].category.id # task[t].asset_category_id
               /\ task[t].category.id > task[t].asset_category_id)

\* after the category of the row (the first one) was created, two later
\* requests were answered 404 and each created one more category; the row
\* still holds the first one
C27_Witness ==
    \E t \in Tasks :
        /\ Repointed(task[t]) /\ task[t].pc = "done"
        /\ task[t].asset_category_id = 1
        /\ task[t].category.id = 3
        /\ \A i \in 1..3 : categories[i] = CategoryName(task[t].args.asset_id)
        /\ get_category_asset(db, task[t].args.asset_id) = 1

\* the category creation calls of request req that were answered with a
\* status classified as an error (5xx, 403, 422, 429) or with a body that is
\* no category, such as one with "errors"
FailedCreations(req) ==
    {i \in 1..Len(req.calls) :
        /\ req.calls[i].op = "category_create"
        /\ \/ is_a_5xx_error(req.calls[i].status)
           \/ req.calls[i].status \in {FORBIDDEN, UNPROCESSABLE_ENTITY, TOO_MANY_REQUESTS}
           \/ req.calls[i].body # "payload"}

\* C28: the category id of every row is the id of a category the forum
\* platform returned from a creation call for the asset of the row; a
\* request whose creation call is classified as an error (5xx, 403, 422,
\* 429), or whose answer holds "errors" or no category, ends there with an
\* exception and makes no insert.
C28_RowsHoldCreatedCategories ==
    /\ \A r \in 1..Len(db) :
         /\ db[r].categoryId \in 1..Len(categories)
         /\ categories[db[r].categoryId] = CategoryName(db[r].assetId)
    /\ \A t \in Tasks :
         LET req == task[t]
         IN  \A i \in FailedCreations(req) :
               /\ i = Len(req.calls)
               /\ req.pc = "done" /\ req.raised # NoExc
               /\ \A j \in 1..Len(req.calls) : req.calls[j].op # "db_insert"
               /\ (req.calls[i].status \in {200, 201} /\ req.calls[i].body = "errors")
                     => req.raised = Exc("DiscourseRequestError", JoinedErrors)

\* a first request whose creation was answered 200 with "errors" ended with
\* the joined errors, and the asset has no row
C28_Witness ==
    \E t \in Tasks :
        /\ task[t].route = "get_category" /\ task[t].pc = "done"
        /\ task[t].asset_category_id = NoCategory
        /\ FailedCreations(task[t]) = {2}
        /\ task[t].calls[2].status = 200 /\ task[t].calls[2].body = "errors"
        /\ task[t].raised = Exc("DiscourseRequestError", JoinedErrors)
        /\ RowsOf(task[t].args.asset_id) = {}

\* a request whose creation was answered 503 ended with the platform
\* unavailable, and the row of the asset is the one of an earlier creation
C28_WitnessUnavailable ==
    \E t \in Tasks :
        /\ task[t].route = "get_category" /\ task[t].pc = "done"
        /\ FailedCreations(task[t]) = {3}
        /\ task[t].calls[3].status = 503
        /\ task[t].raised.type = "DiscourseUnavailableError"
        /\ Cardinality(RowsOf(task[t].args.asset_id)) = 1

\* the side effects of POST /topic, in the order of the handler
CreateTopicOrder ==
    <<"ensure_user", "db_select", "topic_create", "publish_topic", "publish_post",
      "send_email">>

\* the calls of request req without the lookups of the owner of the asset,
\* of its email and of the asset
SideEffects(req) ==
    SelectSeq(Ops(req.calls),
              LAMBDA op : op \notin {"asset_owner", "auth_mail", "asset_get"})

\* C29: the side effects of a POST /topic are a beginning of the sequence
\* ensure_user, association lookup, topic creation, publish of the topic
\* event, publish of the post event, notification email (the lookups for
\* the notification come after both publishes).  An event is published only
\* after the creation call returned the created post; the email is sent
\* only after both events were published; when the publish of the topic
\* event fails the request ends there: the topic was created and the event
\* of its first post is not published.
C29_CreateTopicOrder ==
    \A t \in Tasks :
        LET req == task[t]
            effects == SideEffects(req)
        IN  req.route = "create_topic"
            => /\ Len(effects) <= Len(CreateTopicOrder)
               /\ \A i \in 1..Len(effects) : effects[i] = CreateTopicOrder[i]
               /\ \A i \in 1..Len(req.calls) :
                    /\ req.calls[i].op \in {"asset_owner", "auth_mail", "asset_get"}
                         => i > 5 /\ req.calls[5] = Call("publish_post", 1)
                    /\ req.calls[i].op \in {"publish_topic", "publish_post"}
                         => /\ req.calls[3].body = "payload"
                            /\ create_discourse_topic(req.calls[3]) = NoExc
                    /\ req.calls[i].op = "publish_post"
                         => req.calls[i - 1] = Call("publish_topic", 1)
                    /\ req.calls[i].op = "send_email"
                         => /\ req.calls[4] = Call("publish_topic", 1)
                            /\ req.calls[5] = Call("publish_post", 1)
                            /\ Len(req.sent) = 3
                            /\ req.sent[1].content_id = str(req.response.data.topic_id)
                            /\ req.sent[2].content_id = str(req.response.data.id)
                            /\ req.sent[3].channel = "email"
                    /\ req.calls[i] = Call("publish_topic", 0)
                         => /\ i = Len(req.calls)
                            /\ req.raised = Exc("SendPostModerationError", "")
                            /\ req.sent = <<>>
               /\ \A i \in 1..Len(req.sent) :
                    req.sent[i].channel = "moderation"
                        => \E k \in 1..Len(req.calls) :
                              /\ req.calls[k].op \in {"publish_topic", "publish_post"}
                              /\ req.calls[k].status = 1

\* the forum created the topic, the publish of its event failed and the
\* request ended: no event of the post, no email
C29_Witness ==
    \E t \in Tasks :
        /\ task[t].route = "create_topic" /\ task[t].pc = "done"
        /\ Len(task[t].calls) = 4
        /\ Succeeded(task[t].calls[3])
        /\ task[t].calls[4] = Call("publish_topic", 0)
        /\ task[t].sent = <<>>

\* every side effect took place, with the three lookups before the email
C29_WitnessAll ==
    \E t \in Tasks :
        /\ task[t].route = "create_topic" /\ task[t].pc = "done"
        /\ SideEffects(task[t]) = CreateTopicOrder
        /\ Len(task[t].calls) = 9
        /\ Len(task[t].sent) = 3

\* request req is a POST /topic of a user the forum platform knows, with a
\* title and a text that are long enough, for an asset without a row
TopicWithoutRow(req) ==
    /\ req.route = "create_topic" /\ req.pc = "done"
    /\ Len(req.args.title) >= MIN_TITLE_SIZE_IN_CHAR
    /\ Len(req.args.text) >= MIN_CONTENT_SIZE_IN_CHAR
    /\ Len(req.calls) >= 2
    /\ req.calls[1].op = "ensure_user" /\ Succeeded(req.calls[1])
    /\ req.calls[2] = Call("db_select", NoCategory)

\* C30: a POST /topic of an authenticated user, with a valid title and
\* text, for an asset that has no row is answered HTTP 500 with an error in
\* its data; its only calls are ensure_user and the lookup: no category and
\* no topic is created, no row inserted, nothing is published or mailed,
\* and the step leaves the table and the categories as they were.
C30_NoRowIs500 ==
    /\ [](\A t \in Tasks :
            TopicWithoutRow(task[t])
            => /\ Ops(task[t].calls) = <<"ensure_user", "db_select">>
               /\ task[t].response.http_status = 500
               /\ task[t].response.data = [kind |-> "Error"]
               /\ task[t].raised = NoExc /\ ~task[t].escaped
               /\ task[t].sent = <<>>
               /\ RowsOf(task[t].args.asset_id) = {})
    /\ [][\A t \in Tasks :
            (task[t].pc = "idle" /\ TopicWithoutRow(task'[t]))
            => db' = db /\ categories' = categories]_vars

\* alice is answered 500 for a topic on an asset without a row, while
\* another asset has its category and its row
C30_Witness ==
    \E t \in Tasks :
        /\ TopicWithoutRow(task[t])
        /\ task[t].response.http_status = 500
        /\ task[t].args.user = "alice"
        /\ Len(db) = 1 /\ Len(categories) >= 1

====
